---------------------------- MODULE Spec2Model ----------------------------
(***************************************************************************)
(* Model of the content selection and budgeting pipeline of the repository *)
(* summarizer (src/app/content_filter.py): the skip / tier classifier,     *)
(* select_files, format_tree, truncate_file_content and build_context.     *)
(*                                                                         *)
(* A Python str is a sequence of one-character strings, so that lower(),   *)
(* split("/"), os.path.splitext and the code-point order used by sort()    *)
(* are computed as the code computes them.                                 *)
(***************************************************************************)
EXTENDS Integers, Sequences, FiniteSets, TLC

VARIABLES
    cpath, csize, called, skipRes, tierRes,      \* classifier calls
    tree, candidates, selPc,                     \* select_files call
    metadata, btree, file_contents, selected_files,
    sections, total_chars, idx, breakAt, bcPc, result_len,  \* build_context call
    ftree, fk, flines, ftPc,                     \* format_tree call
    tcontent, tmax, tresult, tagain, tPc,        \* truncate_file_content call
    etext, ework, eres, ePc,                     \* _extract_json call
    vdata, vres, vPc,                            \* _validate_response call
    gresp, graw, gres, gPc,                      \* generate_summary call
    rbody, rrepo, rmetadata, rtree, rselected, rfetched, rcontext, rreply,
    rresult, rsteps, rexc, rresp, rPc,           \* POST /summarize request
    file_paths, batch_i, tasks, attempts, completed, results, fcres, fcPc,
                                                 \* fetch_files_content call
    uurl, uvalidated, uparsed, uPc               \* URL validation and parsing

classVars == <<cpath, csize, called, skipRes, tierRes>>
selVars   == <<tree, candidates, selPc>>
ctxVars   == <<metadata, btree, file_contents, selected_files,
               sections, total_chars, idx, breakAt, bcPc, result_len>>
treeVars  == <<ftree, fk, flines, ftPc>>
truncVars == <<tcontent, tmax, tresult, tagain, tPc>>
ejVars    == <<etext, ework, eres, ePc>>
valVars   == <<vdata, vres, vPc>>
genVars   == <<gresp, graw, gres, gPc>>
reqVars   == <<rbody, rrepo, rmetadata, rtree, rselected, rfetched, rcontext,
               rreply, rresult, rsteps, rexc, rresp, rPc>>
llmVars   == <<ejVars, valVars, genVars>>
fetchVars == <<file_paths, batch_i, tasks, attempts, completed, results,
               fcres, fcPc>>
urlVars   == <<uurl, uvalidated, uparsed, uPc>>
moreVars  == <<fetchVars, urlVars>>
vars      == <<classVars, selVars, ctxVars, treeVars, truncVars, llmVars, reqVars, moreVars>>

---------------------------------------------------------------------------
(* Characters and strings *)

UpperChars ==
    <<"A","B","C","D","E","F","G","H","I","J","K","L","M",
      "N","O","P","Q","R","S","T","U","V","W","X","Y","Z">>

LowerChars ==
    <<"a","b","c","d","e","f","g","h","i","j","k","l","m",
      "n","o","p","q","r","s","t","u","v","w","x","y","z">>

\* The characters of the model in code-point (ASCII) order.
CharOrder ==
    <<"-", ".", "/", "0","1","2","3","4","5","6","7","8","9">>
    \o UpperChars \o <<"_">> \o LowerChars

\* Code-point rank of a character
OrdOf == [c \in {CharOrder[i] : i \in 1..Len(CharOrder)} |->
             CHOOSE i \in 1..Len(CharOrder) : CharOrder[i] = c]

Ord(c) == OrdOf[c]

LowerOf == [c \in {UpperChars[i] : i \in 1..26} |->
               LowerChars[CHOOSE i \in 1..26 : UpperChars[i] = c]]

UpperOf == [c \in {LowerChars[i] : i \in 1..26} |->
               UpperChars[CHOOSE i \in 1..26 : LowerChars[i] = c]]

lower_char(c) == IF c \in DOMAIN LowerOf THEN LowerOf[c] ELSE c

upper_char(c) == IF c \in DOMAIN UpperOf THEN UpperOf[c] ELSE c

\* str.lower()
lower(s) == [i \in 1..Len(s) |-> lower_char(s[i])]

\* str.upper() (used to build inputs only)
upper(s) == [i \in 1..Len(s) |-> upper_char(s[i])]

\* Every second letter upper-cased (used to build inputs only)
alternate(s) == [i \in 1..Len(s) |-> IF i % 2 = 0 THEN upper_char(s[i]) ELSE s[i]]

\* Python's str "<": code-point lexicographic order, a proper prefix is smaller.
RECURSIVE str_less(_, _)
str_less(a, b) ==
    IF b = <<>> THEN FALSE
    ELSE IF a = <<>> THEN TRUE
    ELSE IF a[1] # b[1] THEN Ord(a[1]) < Ord(b[1])
    ELSE str_less(Tail(a), Tail(b))

\* str.split("/"): always at least one part
RECURSIVE split(_)
split(s) ==
    IF \A i \in 1..Len(s) : s[i] # "/" THEN <<s>>
    ELSE LET k == CHOOSE i \in 1..Len(s) :
                      s[i] = "/" /\ \A j \in 1..(i-1) : s[j] # "/"
         IN  <<SubSeq(s, 1, k-1)>> \o split(SubSeq(s, k+1, Len(s)))

\* "/".join(parts)
RECURSIVE join(_)
join(parts) ==
    IF parts = <<>> THEN <<>>
    ELSE IF Len(parts) = 1 THEN parts[1]
    ELSE parts[1] \o <<"/">> \o join(Tail(parts))

\* os.path.basename
basename(path) == LET parts == split(path) IN parts[Len(parts)]

\* os.path.splitext on a name without "/": the extension starts at the last
\* dot, unless only dots precede it (leading dots belong to the root).
splitext(name) ==
    LET dots == {i \in 1..Len(name) : name[i] = "."}
        d    == IF dots = {} THEN 0
                ELSE CHOOSE i \in dots : \A j \in dots : j <= i
    IN  IF d > 0 /\ \E i \in 1..(d-1) : name[i] # "."
        THEN <<SubSeq(name, 1, d-1), SubSeq(name, d, Len(name))>>
        ELSE <<name, <<>> >>

\* Number of decimal digits of str(n), n >= 0
RECURSIVE digits(_)
digits(n) == IF n < 10 THEN 1 ELSE 1 + digits(n \div 10)

---------------------------------------------------------------------------
(* Classification tables *)

\* content_filter.py:20  directories skipped entirely
SKIP_DIRS ==
    { <<".","c","a","c","h","e">>,
      <<".","e","g","g","s">>,
      <<".","e","n","v">>,
      <<".","g","i","t">>,
      <<".","g","r","a","d","l","e">>,
      <<".","i","d","e","a">>,
      <<".","m","y","p","y","_","c","a","c","h","e">>,
      <<".","n","e","x","t">>,
      <<".","n","o","x">>,
      <<".","n","u","x","t">>,
      <<".","o","u","t","p","u","t">>,
      <<".","p","y","t","e","s","t","_","c","a","c","h","e">>,
      <<".","r","u","f","f","_","c","a","c","h","e">>,
      <<".","t","e","r","r","a","f","o","r","m">>,
      <<".","t","o","x">>,
      <<".","v","e","n","v">>,
      <<".","v","s","c","o","d","e">>,
      <<"_","_","p","y","c","a","c","h","e","_","_">>,
      <<"b","i","n">>,
      <<"b","u","i","l","d">>,
      <<"c","o","v","e","r","a","g","e">>,
      <<"d","i","s","t">>,
      <<"e","g","g","s">>,
      <<"e","n","v">>,
      <<"h","t","m","l","c","o","v">>,
      <<"n","o","d","e","_","m","o","d","u","l","e","s">>,
      <<"o","b","j">>,
      <<"o","u","t">>,
      <<"s","i","t","e","-","p","a","c","k","a","g","e","s">>,
      <<"t","a","r","g","e","t">>,
      <<"v","e","n","d","o","r">>,
      <<"v","e","n","v">> }

\* content_filter.py:56  extensions skipped (binary / non-informative)
SKIP_EXTENSIONS ==
    { <<".","7","z">>,
      <<".","D","S","_","S","t","o","r","e">>,
      <<".","a">>,
      <<".","a","v","i">>,
      <<".","b","m","p">>,
      <<".","b","z","2">>,
      <<".","c","l","a","s","s">>,
      <<".","d","b">>,
      <<".","d","l","l">>,
      <<".","d","o","c">>,
      <<".","d","o","c","x">>,
      <<".","e","a","r">>,
      <<".","e","o","t">>,
      <<".","e","x","e">>,
      <<".","f","l","a","c">>,
      <<".","g","i","f">>,
      <<".","g","z">>,
      <<".","i","c","o">>,
      <<".","j","a","r">>,
      <<".","j","p","e","g">>,
      <<".","j","p","g">>,
      <<".","l","i","b">>,
      <<".","l","o","c","k">>,
      <<".","m","a","p">>,
      <<".","m","i","n",".","c","s","s">>,
      <<".","m","i","n",".","j","s">>,
      <<".","m","o","v">>,
      <<".","m","p","3">>,
      <<".","m","p","4">>,
      <<".","o">>,
      <<".","o","t","f">>,
      <<".","p","d","f">>,
      <<".","p","n","g">>,
      <<".","p","p","t">>,
      <<".","p","p","t","x">>,
      <<".","p","y","c">>,
      <<".","p","y","d">>,
      <<".","p","y","o">>,
      <<".","r","a","r">>,
      <<".","s","o">>,
      <<".","s","q","l","i","t","e">>,
      <<".","s","q","l","i","t","e","3">>,
      <<".","s","v","g">>,
      <<".","t","a","r">>,
      <<".","t","i","f","f">>,
      <<".","t","t","f">>,
      <<".","w","a","r">>,
      <<".","w","a","v">>,
      <<".","w","e","b","p">>,
      <<".","w","o","f","f">>,
      <<".","w","o","f","f","2">>,
      <<".","x","l","s">>,
      <<".","x","l","s","x">>,
      <<".","x","z">>,
      <<".","z","i","p">> }

\* content_filter.py:78  exact filenames skipped
SKIP_FILES ==
    { <<".","b","r","o","w","s","e","r","s","l","i","s","t","r","c">>,
      <<".","e","d","i","t","o","r","c","o","n","f","i","g">>,
      <<".","g","i","t","a","t","t","r","i","b","u","t","e","s">>,
      <<"C","a","r","g","o",".","l","o","c","k">>,
      <<"G","e","m","f","i","l","e",".","l","o","c","k">>,
      <<"P","i","p","f","i","l","e",".","l","o","c","k">>,
      <<"c","o","m","p","o","s","e","r",".","l","o","c","k">>,
      <<"f","l","a","k","e",".","l","o","c","k">>,
      <<"g","o",".","s","u","m">>,
      <<"p","a","c","k","a","g","e","-","l","o","c","k",".","j","s","o","n">>,
      <<"p","n","p","m","-","l","o","c","k",".","y","a","m","l">>,
      <<"p","o","e","t","r","y",".","l","o","c","k">>,
      <<"t","h","u","m","b","s",".","d","b">>,
      <<"y","a","r","n",".","l","o","c","k">> }

\* content_filter.py:99  project overview
TIER_1_FILES ==
    { <<"r","e","a","d","m","e">>,
      <<"r","e","a","d","m","e",".","m","d">>,
      <<"r","e","a","d","m","e",".","r","s","t">>,
      <<"r","e","a","d","m","e",".","t","x","t">> }

\* content_filter.py:104  package manifests
TIER_2_FILES ==
    { <<"b","u","i","l","d",".","g","r","a","d","l","e">>,
      <<"b","u","i","l","d",".","g","r","a","d","l","e",".","k","t","s">>,
      <<"c","a","r","g","o",".","t","o","m","l">>,
      <<"c","o","m","p","o","s","e","r",".","j","s","o","n">>,
      <<"e","n","v","i","r","o","n","m","e","n","t",".","y","m","l">>,
      <<"g","e","m","f","i","l","e">>,
      <<"g","o",".","m","o","d">>,
      <<"m","i","x",".","e","x","s">>,
      <<"p","a","c","k","a","g","e",".","j","s","o","n">>,
      <<"p","i","p","f","i","l","e">>,
      <<"p","o","m",".","x","m","l">>,
      <<"p","r","o","j","e","c","t",".","c","l","j">>,
      <<"p","y","p","r","o","j","e","c","t",".","t","o","m","l">>,
      <<"r","e","q","u","i","r","e","m","e","n","t","s","-","d","e","v",".","t","x","t">>,
      <<"r","e","q","u","i","r","e","m","e","n","t","s",".","t","x","t">>,
      <<"r","e","q","u","i","r","e","m","e","n","t","s","_","d","e","v",".","t","x","t">>,
      <<"s","e","t","u","p",".","c","f","g">>,
      <<"s","e","t","u","p",".","p","y">> }

\* content_filter.py:126  config / infrastructure
TIER_3_FILES ==
    { <<".","b","a","b","e","l","r","c">>,
      <<".","e","n","v",".","e","x","a","m","p","l","e">>,
      <<".","e","n","v",".","s","a","m","p","l","e">>,
      <<"a","n","s","i","b","l","e",".","c","f","g">>,
      <<"a","p","p",".","y","a","m","l">>,
      <<"b","a","b","e","l",".","c","o","n","f","i","g",".","j","s">>,
      <<"c","d","k",".","j","s","o","n">>,
      <<"d","o","c","k","e","r","-","c","o","m","p","o","s","e",".","y","a","m","l">>,
      <<"d","o","c","k","e","r","-","c","o","m","p","o","s","e",".","y","m","l">>,
      <<"d","o","c","k","e","r","f","i","l","e">>,
      <<"f","l","y",".","t","o","m","l">>,
      <<"j","e","s","t",".","c","o","n","f","i","g",".","j","s">>,
      <<"j","e","s","t",".","c","o","n","f","i","g",".","t","s">>,
      <<"j","u","s","t","f","i","l","e">>,
      <<"m","a","k","e","f","i","l","e">>,
      <<"n","e","t","l","i","f","y",".","t","o","m","l">>,
      <<"n","e","x","t",".","c","o","n","f","i","g",".","j","s">>,
      <<"n","e","x","t",".","c","o","n","f","i","g",".","m","j","s">>,
      <<"n","o","x","f","i","l","e",".","p","y">>,
      <<"p","r","o","c","f","i","l","e">>,
      <<"r","e","n","d","e","r",".","y","a","m","l">>,
      <<"r","o","l","l","u","p",".","c","o","n","f","i","g",".","j","s">>,
      <<"s","e","r","v","e","r","l","e","s","s",".","y","m","l">>,
      <<"t","a","s","k","f","i","l","e",".","y","m","l">>,
      <<"t","e","r","r","a","f","o","r","m",".","t","f">>,
      <<"t","o","x",".","i","n","i">>,
      <<"t","s","c","o","n","f","i","g",".","j","s","o","n">>,
      <<"v","e","r","c","e","l",".","j","s","o","n">>,
      <<"v","i","t","e",".","c","o","n","f","i","g",".","j","s">>,
      <<"v","i","t","e",".","c","o","n","f","i","g",".","t","s">>,
      <<"v","i","t","e","s","t",".","c","o","n","f","i","g",".","t","s">>,
      <<"w","e","b","p","a","c","k",".","c","o","n","f","i","g",".","j","s">> }

\* content_filter.py:162  entry point basenames
TIER_4_BASENAMES ==
    { <<"_","_","m","a","i","n","_","_">>,
      <<"a","p","p">>,
      <<"a","s","g","i">>,
      <<"c","l","i">>,
      <<"i","n","d","e","x">>,
      <<"m","a","i","n">>,
      <<"m","a","n","a","g","e">>,
      <<"r","u","n">>,
      <<"s","e","r","v","e","r">>,
      <<"w","s","g","i">> }

\* content_filter.py:168  source code extensions
SOURCE_EXTENSIONS ==
    { <<".","b","a","s","h">>,
      <<".","c">>,
      <<".","c","l","j">>,
      <<".","c","p","p">>,
      <<".","c","s">>,
      <<".","e","x">>,
      <<".","e","x","s">>,
      <<".","f","i","s","h">>,
      <<".","g","o">>,
      <<".","g","q","l">>,
      <<".","g","r","a","p","h","q","l">>,
      <<".","h">>,
      <<".","h","p","p">>,
      <<".","j","a","v","a">>,
      <<".","j","l">>,
      <<".","j","s">>,
      <<".","j","s","x">>,
      <<".","k","t">>,
      <<".","l","u","a">>,
      <<".","p","h","p">>,
      <<".","p","r","o","t","o">>,
      <<".","p","y">>,
      <<".","r">>,
      <<".","r","b">>,
      <<".","r","s">>,
      <<".","s","c","a","l","a">>,
      <<".","s","h">>,
      <<".","s","q","l">>,
      <<".","s","w","i","f","t">>,
      <<".","t","s">>,
      <<".","t","s","x">>,
      <<".","z","s","h">> }

\* content_filter.py:180  supplementary docs
TIER_6_FILES ==
    { <<"a","u","t","h","o","r","s",".","m","d">>,
      <<"c","h","a","n","g","e","l","o","g",".","m","d">>,
      <<"c","h","a","n","g","e","s",".","m","d">>,
      <<"c","o","d","e","_","o","f","_","c","o","n","d","u","c","t",".","m","d">>,
      <<"c","o","n","t","r","i","b","u","t","i","n","g",".","m","d">>,
      <<"h","i","s","t","o","r","y",".","m","d">>,
      <<"l","i","c","e","n","s","e">>,
      <<"l","i","c","e","n","s","e",".","m","d">>,
      <<"l","i","c","e","n","s","e",".","t","x","t">>,
      <<"n","o","t","i","c","e">>,
      <<"s","e","c","u","r","i","t","y",".","m","d">> }

---------------------------------------------------------------------------
(* Skip / tier classifier *)

\* A plausible slip: the path is not lower-cased before it is compared.
should_skip_case_sensitive(path) ==
    LET parts    == split(path)
        filename == parts[Len(parts)]
        ext      == splitext(filename)[2]
    IN  \/ \E i \in 1..(Len(parts)-1) : parts[i] \in SKIP_DIRS
        \/ filename \in SKIP_FILES
        \/ ext \in SKIP_EXTENSIONS

\* A plausible slip: every segment, the filename included, is matched
\* against SKIP_DIRS.
should_skip_all_segments(path) ==
    LET parts    == split(lower(path))
        filename == parts[Len(parts)]
        ext      == splitext(filename)[2]
    IN  \/ \E i \in 1..Len(parts) : parts[i] \in SKIP_DIRS
        \/ filename \in SKIP_FILES
        \/ ext \in SKIP_EXTENSIONS

should_skip(path) ==
    LET parts    == split(lower(path))
        filename == parts[Len(parts)]
        ext      == splitext(filename)[2]
    IN  \/ \E i \in 1..(Len(parts)-1) : parts[i] \in SKIP_DIRS
        \/ filename \in SKIP_FILES
        \/ ext \in SKIP_EXTENSIONS

\* A plausible slip: the source-extension rules are tried before the
\* manifest and config name tables.
get_tier_extension_first(path, size) ==
    LET filename == lower(basename(path))
        se       == splitext(filename)
    IN  IF filename \in TIER_1_FILES THEN 1
        ELSE IF se[1] \in TIER_4_BASENAMES /\ se[2] \in SOURCE_EXTENSIONS THEN 4
        ELSE IF filename = <<"_","_","i","n","i","t","_","_",".","p","y">>
                /\ \A i \in 1..Len(path) : path[i] # "/" THEN 4
        ELSE IF se[2] \in SOURCE_EXTENSIONS THEN 5
        ELSE IF filename \in TIER_2_FILES THEN 2
        ELSE IF filename \in TIER_3_FILES THEN 3
        ELSE IF filename \in TIER_6_FILES THEN 6
        ELSE 99

get_tier(path, size) ==
    LET filename == lower(basename(path))
        se       == splitext(filename)
    IN  IF filename \in TIER_1_FILES THEN 1
        ELSE IF filename \in TIER_2_FILES THEN 2
        ELSE IF filename \in TIER_3_FILES THEN 3
        ELSE IF se[1] \in TIER_4_BASENAMES /\ se[2] \in SOURCE_EXTENSIONS THEN 4
        ELSE IF filename = <<"_","_","i","n","i","t","_","_",".","p","y">>
                /\ \A i \in 1..Len(path) : path[i] # "/" THEN 4
        ELSE IF se[2] \in SOURCE_EXTENSIONS THEN 5
        ELSE IF filename \in TIER_6_FILES THEN 6
        ELSE 99

---------------------------------------------------------------------------
(* Inputs of the classifier calls *)

\* Paths used as examples by the tests and the specification
P_readme    == <<"R","E","A","D","M","E",".","m","d">>
P_package   == <<"p","a","c","k","a","g","e",".","j","s","o","n">>
P_main      == <<"s","r","c","/","m","a","i","n",".","p","y">>
P_utils     == <<"s","r","c","/","u","t","i","l","s",".","p","y">>
P_nodelib   == <<"n","o","d","e","_","m","o","d","u","l","e","s","/","l","i","b",".","j","s">>
P_datacsv   == <<"d","a","t","a",".","c","s","v">>
P_zeta      == <<"Z","e","t","a",".","p","y">>
P_licenses  == <<"l","i","c","e","n","s","e">>
P_docker    == <<"D","o","c","k","e","r","f","i","l","e">>
P_license   == <<"L","I","C","E","N","S","E">>
P_mainpy    == <<"m","a","i","n",".","p","y">>

\* Longest chain of ordinary directories put before and after a segment
MaxDepth == 1

S_src == <<"s","r","c">>
S_Lib == <<"L","i","b">>
PlainDirs == {S_src, S_Lib}

DirSeqs == UNION {[1..k -> PlainDirs] : k \in 0..MaxDepth}

\* A name as written and in other letter cases
Variants(s) == {s, upper(s), lower(s), alternate(s)}

VariantsOf(names) == UNION {Variants(s) : s \in names}

PlainFiles == {<<"n","o","t","e","s">>, <<"u","t","i","l","s",".","p","y">>}

\* Paths with a SKIP_DIRS name as one directory segment, or as the last segment
DirPaths ==
    {join(pre \o <<d>> \o post \o <<f>>) :
        pre \in DirSeqs, d \in VariantsOf(SKIP_DIRS), post \in DirSeqs, f \in PlainFiles}
    \cup {join(pre \o <<d>>) : pre \in DirSeqs, d \in VariantsOf(SKIP_DIRS)}

Stems == {<<>>, <<"a">>, <<"a","p","p">>, <<"a",".","b">>}

\* Paths whose filename ends with a member of SKIP_EXTENSIONS
ExtPaths ==
    {join(ds \o <<stem \o e>>) :
        ds \in DirSeqs, stem \in Stems, e \in VariantsOf(SKIP_EXTENSIONS)}

\* Paths whose filename is a member of SKIP_FILES
FilePaths ==
    {join(ds \o <<f>>) : ds \in DirSeqs, f \in VariantsOf(SKIP_FILES)}

TierNames == TIER_1_FILES \cup TIER_2_FILES \cup TIER_3_FILES \cup TIER_6_FILES

EntryPoints == {b \o e : b \in TIER_4_BASENAMES, e \in SOURCE_EXTENSIONS}

OtherNames ==
    { <<"d","a","t","a",".","c","s","v">>,
      <<"r","a","n","d","o","m",".","x","y","z">>,
      <<"_","_","i","n","i","t","_","_",".","p","y">>,
      <<"m","a","i","n">>,
      <<"u","t","i","l","s",".","p","y">>,
      <<"h","e","l","p","e","r",".","t","s">>,
      <<"r","e","a","d","m","e",".","p","y">>,
      <<"l","i","c","e","n","s","e",".","g","o">>,
      P_readme, P_docker, P_license }

\* Paths whose filename is named by a tier table, an entry point, or neither
TierPaths ==
    {join(ds \o <<f>>) :
        ds \in DirSeqs, f \in VariantsOf(TierNames \cup OtherNames) \cup EntryPoints}

InputPaths == DirPaths \cup ExtPaths \cup FilePaths \cup TierPaths

Sizes == {0, 2000, 600000}

---------------------------------------------------------------------------
(* Classifier calls as a state machine: one path, each function called once *)

ClassIdle ==
    /\ cpath = <<>> /\ csize = 0 /\ called = {}
    /\ skipRes = FALSE /\ tierRes = 0

SelIdle == tree = <<>> /\ candidates = <<>> /\ selPc = "idle"

CtxIdle ==
    /\ metadata = <<>> /\ btree = <<>> /\ file_contents = <<>>
    /\ selected_files = <<>> /\ sections = <<>> /\ total_chars = 0
    /\ idx = 0 /\ breakAt = 0 /\ bcPc = "idle" /\ result_len = 0

TreeIdle == ftree = <<>> /\ fk = 0 /\ flines = <<>> /\ ftPc = "idle"

TruncIdle ==
    tcontent = <<>> /\ tmax = 0 /\ tresult = <<>> /\ tagain = <<>> /\ tPc = "idle"

EjIdle == etext = <<>> /\ ework = <<>> /\ eres = <<>> /\ ePc = "idle"

ValIdle == vdata = <<>> /\ vres = <<>> /\ vPc = "idle"

GenIdle == gresp = <<>> /\ graw = <<>> /\ gres = <<>> /\ gPc = "idle"

ReqIdle ==
    /\ rbody = <<>> /\ rrepo = <<>> /\ rmetadata = <<>>
    /\ rtree = <<>> /\ rselected = <<>> /\ rfetched = {}
    /\ rcontext = <<>> /\ rreply = <<>> /\ rresult = <<>>
    /\ rsteps = <<>> /\ rexc = <<>> /\ rresp = <<>> /\ rPc = "idle"

LlmIdle == EjIdle /\ ValIdle /\ GenIdle

FetchIdle ==
    /\ file_paths = <<>> /\ batch_i = 0 /\ tasks = <<>> /\ attempts = <<>>
    /\ completed = <<>> /\ results = {} /\ fcres = <<>> /\ fcPc = "idle"

UrlIdle == uurl = <<>> /\ uvalidated = <<>> /\ uparsed = <<>> /\ uPc = "idle"

MoreIdle == FetchIdle /\ UrlIdle

InitClassify ==
    /\ cpath \in InputPaths
    /\ csize = 0 /\ called = {} /\ skipRes = FALSE /\ tierRes = 0
    /\ SelIdle /\ CtxIdle /\ TreeIdle /\ TruncIdle /\ LlmIdle /\ ReqIdle /\ MoreIdle

CallShouldSkip ==
    /\ "skip" \notin called
    /\ skipRes' = should_skip(cpath)
    /\ called' = called \cup {"skip"}
    /\ UNCHANGED <<cpath, csize, tierRes, selVars, ctxVars, treeVars, truncVars, llmVars, reqVars, moreVars>>

CallGetTier ==
    /\ "tier" \notin called
    /\ \E s \in Sizes :
        /\ csize' = s
        /\ tierRes' = get_tier(cpath, s)
    /\ called' = called \cup {"tier"}
    /\ UNCHANGED <<cpath, skipRes, selVars, ctxVars, treeVars, truncVars, llmVars, reqVars, moreVars>>

NextClassify == CallShouldSkip \/ CallGetTier

SpecClassify == InitClassify /\ [][NextClassify]_vars
---------------------------------------------------------------------------
(* select_files *)

\* item.get("size", 0): fetch_file_tree sets "size" on blobs only
get_size(item) == IF "size" \in DOMAIN item THEN item.size ELSE 0

Candidate(path, size, tier) == [path |-> path, size |-> size, tier |-> tier]

\* The loop of select_files: the eligible blobs, in tree order
RECURSIVE collect(_)
collect(t) ==
    IF t = <<>> THEN <<>>
    ELSE LET item == Head(t)
             rest == collect(Tail(t))
         IN  IF item.type # "blob" THEN rest
             ELSE IF should_skip(item.path) THEN rest
             ELSE IF get_tier(item.path, get_size(item)) = 99 THEN rest
             ELSE <<Candidate(item.path, get_size(item),
                              get_tier(item.path, get_size(item)))>> \o rest

\* The sort key (f["tier"], f["path"]) compared as Python compares tuples
key_less(a, b) ==
    \/ a.tier < b.tier
    \/ a.tier = b.tier /\ str_less(a.path, b.path)

\* list.sort is stable: an element goes after every element not greater than it
RECURSIVE insert_sorted(_, _)
insert_sorted(x, s) ==
    IF s = <<>> THEN <<x>>
    ELSE IF key_less(x, Head(s)) THEN <<x>> \o s
    ELSE <<Head(s)>> \o insert_sorted(x, Tail(s))

RECURSIVE sort_by_key(_)
sort_by_key(s) ==
    IF s = <<>> THEN <<>>
    ELSE insert_sorted(s[Len(s)], sort_by_key(SubSeq(s, 1, Len(s) - 1)))

\* A plausible slip: the candidates are ordered by path alone.
RECURSIVE insert_by_path(_, _)
insert_by_path(x, s) ==
    IF s = <<>> THEN <<x>>
    ELSE IF str_less(x.path, Head(s).path) THEN <<x>> \o s
    ELSE <<Head(s)>> \o insert_by_path(x, Tail(s))

RECURSIVE sort_by_path(_)
sort_by_path(s) ==
    IF s = <<>> THEN <<>>
    ELSE insert_by_path(s[Len(s)], sort_by_path(SubSeq(s, 1, Len(s) - 1)))

select_files_path_order(t) == sort_by_path(collect(t))

\* A plausible slip: the entry type is not looked at.
RECURSIVE collect_any_type(_)
collect_any_type(t) ==
    IF t = <<>> THEN <<>>
    ELSE LET item == Head(t)
             rest == collect_any_type(Tail(t))
         IN  IF should_skip(item.path) THEN rest
             ELSE IF get_tier(item.path, get_size(item)) = 99 THEN rest
             ELSE <<Candidate(item.path, get_size(item),
                              get_tier(item.path, get_size(item)))>> \o rest

select_files_any_type(t) == sort_by_key(collect_any_type(t))

\* A variant that keeps the first candidate of each path only.
RECURSIVE dedup_by_path(_)
dedup_by_path(s) ==
    IF s = <<>> THEN <<>>
    ELSE LET init == dedup_by_path(SubSeq(s, 1, Len(s) - 1))
             x    == s[Len(s)]
         IN  IF \E i \in 1..Len(init) : init[i].path = x.path THEN init
             ELSE init \o <<x>>

select_files_dedup(t) == sort_by_key(dedup_by_path(collect(t)))

select_files(t) == sort_by_key(collect(t))

---------------------------------------------------------------------------
(* Inputs of select_files *)

\* Longest tree handed to select_files
MaxTree == 4

Blob(path, size) == [path |-> path, type |-> "blob", size |-> size]
Dir(path)        == [path |-> path, type |-> "tree"]

TreePool ==
    { Blob(P_readme, 500), Blob(P_package, 200), Blob(P_main, 1024),
      Blob(P_nodelib, 900), Blob(P_datacsv, 50000), Blob(P_zeta, 10),
      Blob(P_utils, 0), Dir(P_licenses) }

Trees == UNION {[1..k -> TreePool] : k \in 0..MaxTree}

InitSelect ==
    /\ tree \in Trees
    /\ candidates = <<>> /\ selPc = "start"
    /\ ClassIdle /\ CtxIdle /\ TreeIdle /\ TruncIdle /\ LlmIdle /\ ReqIdle /\ MoreIdle

SelectFiles ==
    /\ selPc = "start"
    /\ candidates' = select_files(tree)
    /\ selPc' = "done"
    /\ UNCHANGED <<tree, classVars, ctxVars, treeVars, truncVars, llmVars, reqVars, moreVars>>

NextSelect == SelectFiles

SpecSelect == InitSelect /\ [][NextSelect]_vars

---------------------------------------------------------------------------
(* Configuration: src/app/config.py *)

MAX_CONTEXT_CHARS == 200000
MAX_TREE_LINES    == 500
MAX_FILE_LINES    == 300

---------------------------------------------------------------------------
(* format_tree *)

\* f"{x:.1f}" of x = n / d for a power of two d: the value in tenths, rounded
\* half to even as the float formatting rounds the exactly represented x
round_tenths(n, d) ==
    LET q == (n * 10) \div d
        r == (n * 10) % d
    IN  IF 2 * r > d \/ (2 * r = d /\ q % 2 = 1) THEN q + 1 ELSE q

\* _format_size: the rendered number (in units, or in tenths) and the unit
format_size(size_bytes) ==
    IF size_bytes < 1024
    THEN [unit |-> "B", num |-> size_bytes]
    ELSE IF size_bytes < 1024 * 1024
    THEN [unit |-> "KB", num |-> round_tenths(size_bytes, 1024)]
    ELSE [unit |-> "MB", num |-> round_tenths(size_bytes, 1024 * 1024)]

\* len(_format_size(size_bytes)): "<n> B", "<n>.<d> KB", "<n>.<d> MB"
size_str_len(fs) ==
    IF fs.unit = "B" THEN digits(fs.num) + 2
    ELSE digits(fs.num \div 10) + 2 + 3

\* One line of the rendered tree. kind "dir": prefix name "/"; "file": prefix
\* name; "sized": prefix name "  (" size ")"; "truncated": the final notice
TreeLine(kind, depth, name, size, total) ==
    [kind |-> kind, depth |-> depth, name |-> name, size |-> size, total |-> total]

tree_line_len(line) ==
    IF line.kind = "truncated" THEN 33 + digits(line.total)
    ELSE 2 * line.depth + Len(line.name)
         + (IF line.kind = "dir" THEN 1
            ELSE IF line.kind = "sized" THEN 4 + size_str_len(format_size(line.size))
            ELSE 0)

\* The two tests of format_tree that omit an entry: a directory segment
\* before the last in SKIP_DIRS, or the last segment's extension or name in
\* SKIP_EXTENSIONS / SKIP_FILES. Neither test looks at the entry's type.
tree_entry_skipped(item) ==
    LET parts    == split(item.path)
        filename == lower(parts[Len(parts)])
        ext      == splitext(filename)[2]
    IN  \/ \E i \in 1..(Len(parts) - 1) : lower(parts[i]) \in SKIP_DIRS
        \/ ext \in SKIP_EXTENSIONS \/ filename \in SKIP_FILES

\* The line format_tree appends for an entry it keeps
tree_entry_line(item) ==
    LET parts == split(item.path)
        depth == Len(parts) - 1
        name  == parts[Len(parts)]
    IN  IF item.type = "tree" THEN TreeLine("dir", depth, name, 0, 0)
        ELSE IF get_size(item) > 0
        THEN TreeLine("sized", depth, name, get_size(item), 0)
        ELSE TreeLine("file", depth, name, 0, 0)

\* The test made after every append with > in place of >=
tree_limit_exceeded(lines) == Len(lines) > MAX_TREE_LINES

\* if len(lines) >= MAX_TREE_LINES, tested after every append
tree_limit_reached(lines) == Len(lines) >= MAX_TREE_LINES

\* f"  ... (truncated, {len(tree)} total entries)"
tree_notice(t) == TreeLine("truncated", 0, <<>>, 0, Len(t))

\* The loop of format_tree from entry k on, lines being those emitted so far
RECURSIVE format_tree_from(_, _, _)
format_tree_from(t, k, lines) ==
    IF k > Len(t) THEN lines
    ELSE IF tree_entry_skipped(t[k]) THEN format_tree_from(t, k + 1, lines)
    ELSE LET appended == Append(lines, tree_entry_line(t[k]))
         IN  IF tree_limit_reached(appended)
             THEN Append(appended, tree_notice(t))
             ELSE format_tree_from(t, k + 1, appended)

\* The lines that format_tree joins with "\n"
format_tree(t) == format_tree_from(t, 1, <<>>)

RECURSIVE sum_tree_lines(_)
sum_tree_lines(lines) ==
    IF lines = <<>> THEN 0 ELSE tree_line_len(Head(lines)) + sum_tree_lines(Tail(lines))

\* len("\n".join(lines))
tree_str_len(lines) ==
    IF lines = <<>> THEN 0 ELSE sum_tree_lines(lines) + Len(lines) - 1

---------------------------------------------------------------------------
(* truncate_file_content *)

\* A file body is the sequence of its lines, content.split("\n"): at least
\* one line. A line of text is kept by its length; the notice line that
\* truncate_file_content appends keeps the line count it reports.
TextLine(n)      == [kind |-> "text", n |-> n]
TruncatedLine(n) == [kind |-> "truncated", n |-> n]

\* len of a line: the notice is "... (truncated, <n> total lines)"
line_len(line) == IF line.kind = "text" THEN line.n ELSE 29 + digits(line.n)

\* The lengths of lines lo..hi added up, halving the range
RECURSIVE sum_lines(_, _, _)
sum_lines(lines, lo, hi) ==
    IF lo > hi THEN 0
    ELSE IF lo = hi THEN line_len(lines[lo])
    ELSE LET mid == (lo + hi) \div 2
         IN  sum_lines(lines, lo, mid) + sum_lines(lines, mid + 1, hi)

\* len("\n".join(lines[:m])), and -1 for m = 0: no line is complete
prefix_len(lines, m) == sum_lines(lines, 1, m) + m - 1

\* len("\n".join(lines))
str_len(lines) == prefix_len(lines, Len(lines))

\* The lines of "\n".join(lines[:m]): joining no line gives the empty
\* string, which is one empty line
joined_prefix(lines, m) ==
    IF m = 0 THEN <<TextLine(0)>> ELSE SubSeq(lines, 1, m)

\* truncate_file_content with the notice appended after a single "\n"
truncate_without_blank_line(content, max_lines) ==
    IF Len(content) <= max_lines THEN content
    ELSE joined_prefix(content, max_lines) \o <<TruncatedLine(Len(content))>>

\* "\n".join(lines[:max_lines]) + "\n\n... (truncated, N total lines)"
truncate_file_content(content, max_lines) ==
    IF Len(content) <= max_lines THEN content
    ELSE joined_prefix(content, max_lines)
         \o <<TextLine(0), TruncatedLine(Len(content))>>

\* content[:k]: the first k characters, as lines again. The slice holds the
\* first m lines whole, m the most whose joined length is at most k, and,
\* when it goes on past the line break, the head of line m + 1.
take_chars(lines, k) ==
    LET m == CHOOSE n \in 0..Len(lines) :
                 /\ prefix_len(lines, n) <= k
                 /\ n = Len(lines) \/ prefix_len(lines, n + 1) > k
    IN  IF m = Len(lines) \/ prefix_len(lines, m) = k
        THEN SubSeq(lines, 1, m)
        ELSE SubSeq(lines, 1, m) \o <<TextLine(k - prefix_len(lines, m) - 1)>>

---------------------------------------------------------------------------
(* build_context *)

\* A str of the metadata is kept by its length; 0 stands for None and "".
\* metadata.get(key, default)
meta_get(md, key, default) == IF key \in DOMAIN md THEN md[key] ELSE default

RECURSIVE sum_seq(_)
sum_seq(s) == IF s = <<>> THEN 0 ELSE Head(s) + sum_seq(Tail(s))

\* The lengths of the lines of _build_metadata_section
metadata_lines(md) ==
    LET desc   == meta_get(md, "description", 0)
        lang   == meta_get(md, "language", 0)
        topics == meta_get(md, "topics", <<>>)
    IN  <<27, 6 + meta_get(md, "name", 7), 7 + meta_get(md, "owner", 7)>>
        \o (IF desc # 0 THEN <<13 + desc>> ELSE <<>>)
        \o (IF lang # 0 THEN <<18 + lang>> ELSE <<>>)
        \o (IF topics # <<>>
            THEN <<8 + sum_seq(topics) + 2 * (Len(topics) - 1)>> ELSE <<>>)
        \o <<7 + digits(meta_get(md, "stars", 0)), 0>>

\* len(_build_metadata_section(metadata))
metadata_section_len(md) ==
    sum_seq(metadata_lines(md)) + Len(metadata_lines(md)) - 1

\* One element of the list "sections": its kind, the file it is about, its
\* length, and n: the lines of the file content, or the count of the notice
Section(kind, path, len, n) == [kind |-> kind, path |-> path, len |-> len, n |-> n]

\* f"--- {path} ---\n{content}\n\n"
file_block_len(path, content) == Len(path) + str_len(content) + 11

\* f"--- {path} (truncated to fit budget) ---\n{content}\n\n"
truncated_block_len(path, content) == Len(path) + str_len(content) + 37

\* f"... ({remaining} additional files omitted due to context budget)\n"
notice_len(remaining) == 54 + digits(remaining)

\* sum(1 for f in selected_files if f["path"] in file_contents and f["path"] != path)
remaining_count(sel, fc, path) ==
    Cardinality({i \in 1..Len(sel) : sel[i].path \in DOMAIN fc /\ sel[i].path # path})

RECURSIVE sum_sections(_)
sum_sections(secs) ==
    IF secs = <<>> THEN 0 ELSE Head(secs).len + sum_sections(Tail(secs))

\* len("\n".join(sections))
joined_len(secs) == sum_sections(secs) + Len(secs) - 1

---------------------------------------------------------------------------
(* Inputs of build_context *)

\* Most blobs in a tree handed to build_context
MaxFiles == 3

RECURSIVE repeat(_, _)
repeat(s, n) == IF n = 0 THEN <<>> ELSE s \o repeat(s, n - 1)

\* A README fifty directories down: a path of 209 characters
P_deep == repeat(<<"p","k","g","/">>, 50) \o P_readme

\* The blobs a tree may hold, in the order the tree lists them
CtxBlobs ==
    << Blob(P_readme, 500), Blob(P_package, 200), Blob(P_main, 1024),
       Blob(P_utils, 0), Blob(P_deep, 2048) >>

\* The entries of CtxBlobs picked by the index set S, in their order
RECURSIVE pick(_, _)
pick(S, k) ==
    IF k > Len(CtxBlobs) THEN <<>>
    ELSE (IF k \in S THEN <<CtxBlobs[k]>> ELSE <<>>) \o pick(S, k + 1)

CtxTrees ==
    {<<Dir(S_src)>> \o pick(S, 1) :
        S \in {T \in SUBSET (1..Len(CtxBlobs)) : Cardinality(T) <= MaxFiles}}

TextLines(count, n) == [i \in 1..count |-> TextLine(n)]

\* File bodies: 40 characters, 99,999 characters in two lines, 199,500
\* characters, and one line more than MAX_FILE_LINES
Contents ==
    { TextLines(1, 40), TextLines(2, 49999), TextLines(1, 199500),
      TextLines(MAX_FILE_LINES + 1, 10) }

\* Metadata as the tests pass it (three keys), and as fetch_repo_metadata
\* builds it, here with a description of 400,000 characters
Metadatas ==
    { [name |-> 4, owner |-> 5, stars |-> 0],
      [name |-> 9, owner |-> 9, url |-> 38, description |-> 400000,
       default_branch |-> 4, language |-> 6, stars |-> 42, topics |-> <<7, 3>>] }

PathsOf(sel) == {sel[i].path : i \in 1..Len(sel)}

---------------------------------------------------------------------------
(* build_context as a state machine: the three leading sections, one step of
   the loop per candidate, the final join *)

InitContext ==
    /\ metadata \in Metadatas
    /\ btree \in CtxTrees
    /\ selected_files = select_files(btree)
    /\ \E D \in SUBSET PathsOf(select_files(btree)) : file_contents \in [D -> Contents]
    /\ sections = <<>> /\ total_chars = 0 /\ idx = 0 /\ breakAt = 0
    /\ bcPc = "start" /\ result_len = 0
    /\ ClassIdle /\ SelIdle /\ TreeIdle /\ TruncIdle /\ LlmIdle /\ ReqIdle /\ MoreIdle

\* Sections 1 to 3: metadata, directory tree, file contents header
BCSections ==
    /\ bcPc = "start"
    /\ LET meta_len == metadata_section_len(metadata)
           tree_len == 28 + tree_str_len(format_tree(btree)) + 1
       IN  /\ sections' = << Section("metadata", <<>>, meta_len, 0),
                             Section("tree", <<>>, tree_len, 0),
                             Section("header", <<>>, 22, 0) >>
           /\ total_chars' = meta_len + tree_len + 22
    /\ idx' = 1
    /\ bcPc' = "loop"
    /\ UNCHANGED <<metadata, btree, file_contents, selected_files, breakAt,
                   result_len, classVars, selVars,
                   treeVars, truncVars, llmVars, reqVars, moreVars>>

\* The loop is at a candidate that has no body in file_contents
AtBodiless ==
    /\ bcPc = "loop" /\ idx <= Len(selected_files)
    /\ selected_files[idx].path \notin DOMAIN file_contents

\* The loop stops at a candidate without a body instead of passing it
BCSkipAbsentBreaks ==
    /\ AtBodiless
    /\ bcPc' = "return"
    /\ UNCHANGED <<metadata, btree, file_contents, selected_files, sections,
                   total_chars, idx, breakAt, result_len, classVars, selVars,
                   treeVars, truncVars, llmVars, reqVars, moreVars>>

\* if path not in file_contents: continue
BCSkipAbsent ==
    /\ bcPc = "loop" /\ idx <= Len(selected_files)
    /\ selected_files[idx].path \notin DOMAIN file_contents
    /\ idx' = idx + 1
    /\ UNCHANGED <<metadata, btree, file_contents, selected_files, sections,
                   total_chars, breakAt, bcPc, result_len, classVars, selVars,
                   treeVars, truncVars, llmVars, reqVars, moreVars>>

\* The block fits the budget: it is appended
BCAppend ==
    /\ bcPc = "loop" /\ idx <= Len(selected_files)
    /\ selected_files[idx].path \in DOMAIN file_contents
    /\ LET path    == selected_files[idx].path
           content == truncate_file_content(file_contents[path], MAX_FILE_LINES)
           block   == file_block_len(path, content)
       IN  /\ ~(total_chars + block > MAX_CONTEXT_CHARS)
           /\ sections' = Append(sections, Section("file", path, block, Len(content)))
           /\ total_chars' = total_chars + block
    /\ idx' = idx + 1
    /\ UNCHANGED <<metadata, btree, file_contents, selected_files, breakAt,
                   bcPc, result_len, classVars, selVars,
                   treeVars, truncVars, llmVars, reqVars, moreVars>>

\* The budget is exceeded: the candidate is left out and the loop goes on
BCOverflowContinues ==
    /\ bcPc = "loop" /\ idx <= Len(selected_files)
    /\ selected_files[idx].path \in DOMAIN file_contents
    /\ LET path    == selected_files[idx].path
           content == truncate_file_content(file_contents[path], MAX_FILE_LINES)
       IN  total_chars + file_block_len(path, content) > MAX_CONTEXT_CHARS
    /\ idx' = idx + 1
    /\ UNCHANGED <<metadata, btree, file_contents, selected_files, sections,
                   total_chars, breakAt, bcPc, result_len, classVars, selVars,
                   treeVars, truncVars, llmVars, reqVars, moreVars>>

\* The block does not fit: a tier 1-3 file is cut to the space left when that
\* is above 500; then the omitted-files notice is appended and the loop breaks
BCOverflow ==
    /\ bcPc = "loop" /\ idx <= Len(selected_files)
    /\ selected_files[idx].path \in DOMAIN file_contents
    /\ LET path      == selected_files[idx].path
           content   == truncate_file_content(file_contents[path], MAX_FILE_LINES)
           block     == file_block_len(path, content)
           available == MAX_CONTEXT_CHARS - total_chars - 200
           cut       == take_chars(content, available)
           fitted    == selected_files[idx].tier <= 3 /\ available > 500
           notice    == Section("notice", <<>>,
                                notice_len(remaining_count(selected_files, file_contents, path)),
                                remaining_count(selected_files, file_contents, path))
       IN  /\ total_chars + block > MAX_CONTEXT_CHARS
           /\ IF fitted
              THEN /\ sections' = sections
                          \o << Section("file_truncated", path,
                                        truncated_block_len(path, cut), Len(cut)),
                                notice >>
                   /\ total_chars' = total_chars + truncated_block_len(path, cut)
              ELSE /\ sections' = Append(sections, notice)
                   /\ total_chars' = total_chars
    /\ breakAt' = idx
    /\ bcPc' = "return"
    /\ UNCHANGED <<metadata, btree, file_contents, selected_files, idx,
                   result_len, classVars, selVars,
                   treeVars, truncVars, llmVars, reqVars, moreVars>>

\* The candidates are exhausted
BCLoopEnd ==
    /\ bcPc = "loop" /\ idx > Len(selected_files)
    /\ bcPc' = "return"
    /\ UNCHANGED <<metadata, btree, file_contents, selected_files, sections,
                   total_chars, idx, breakAt, result_len, classVars, selVars,
                   treeVars, truncVars, llmVars, reqVars, moreVars>>

\* return "\n".join(sections)
BCReturn ==
    /\ bcPc = "return"
    /\ result_len' = joined_len(sections)
    /\ bcPc' = "done"
    /\ UNCHANGED <<metadata, btree, file_contents, selected_files, sections,
                   total_chars, idx, breakAt, classVars, selVars,
                   treeVars, truncVars, llmVars, reqVars, moreVars>>

NextContext ==
    BCSections \/ BCSkipAbsent \/ BCAppend \/ BCOverflow \/ BCLoopEnd \/ BCReturn

SpecContext == InitContext /\ [][NextContext]_vars

---------------------------------------------------------------------------
(* Properties of the classifier *)

ends_with(s, e) ==
    Len(s) >= Len(e) /\ SubSeq(s, Len(s) - Len(e) + 1, Len(s)) = e

\* The directory segments of a path (all but the last) and its filename
DirSegments(path) == LET parts == split(path) IN SubSeq(parts, 1, Len(parts) - 1)
FileName(path)    == LET parts == split(path) IN parts[Len(parts)]

\* The tables with every entry lower-cased: a name matches one of them
\* case-insensitively when its lower-cased form is a member
SkipDirsLower  == {lower(n) : n \in SKIP_DIRS}
SkipFilesLower == {lower(n) : n \in SKIP_FILES}
SkipExtsLower  == {lower(n) : n \in SKIP_EXTENSIONS}

HasSkipDir(path) ==
    LET ds == DirSegments(path)
    IN  \E i \in 1..Len(ds) : lower(ds[i]) \in SkipDirsLower

\* C7: a path with a SKIP_DIRS name (in any letter case) as a segment other
\* than the last is skipped; a path whose only SKIP_DIRS name is its last
\* segment is not skipped on that account.
C7_SkipDirSegment ==
    "skip" \in called =>
        /\ HasSkipDir(cpath) => skipRes = TRUE
        /\ (~HasSkipDir(cpath) /\ lower(FileName(cpath)) \in SkipDirsLower)
               => skipRes = FALSE

\* C7 witness: a directory segment that matches only after lower-casing, skipped
C7_Witness ==
    /\ "skip" \in called
    /\ LET ds == DirSegments(cpath)
       IN  /\ Len(ds) >= 2
           /\ \E i \in 1..Len(ds) : ds[i] \notin SKIP_DIRS /\ lower(ds[i]) \in SKIP_DIRS
    /\ skipRes = TRUE

\* C8: a path whose filename ends with a member of SKIP_EXTENSIONS, in any
\* letter case, is skipped whatever directories precede the filename.
C8_SkipExtension ==
    "skip" \in called =>
        LET f == lower(FileName(cpath))
        IN  (\E e \in SkipExtsLower : ends_with(f, e)) => skipRes = TRUE

\* C9: a path whose filename equals a member of SKIP_FILES, in any letter
\* case, is skipped in any directory.
C9_SkipFileName ==
    "skip" \in called =>
        (lower(FileName(cpath)) \in SkipFilesLower => skipRes = TRUE)

\* C9 witness: a mixed-case table entry, upper-cased, below a directory
C9_Witness ==
    /\ "skip" \in called
    /\ FileName(cpath) = upper(<<"P","i","p","f","i","l","e",".","l","o","c","k">>)
    /\ Len(DirSegments(cpath)) >= 1
    /\ skipRes = TRUE

\* The rules of _get_tier in their order, and the tier each one gives
TierRules(path) ==
    LET f  == lower(FileName(path))
        se == splitext(f)
    IN  << f \in TIER_1_FILES,
           f \in TIER_2_FILES,
           f \in TIER_3_FILES,
           \/ se[1] \in TIER_4_BASENAMES /\ se[2] \in SOURCE_EXTENSIONS
           \/ f = <<"_","_","i","n","i","t","_","_",".","p","y">> /\ Len(split(path)) = 1,
           se[2] \in SOURCE_EXTENSIONS,
           f \in TIER_6_FILES >>

FirstRule(path) ==
    LET rules == TierRules(path)
        hits  == {i \in 1..6 : rules[i]}
    IN  IF hits = {} THEN 99 ELSE CHOOSE i \in hits : \A j \in hits : i <= j

\* C10: _get_tier depends on the path alone, returns one of 1..6 or 99, and
\* is decided by the first matching rule in the fixed order; a tier-2 or
\* tier-3 name with a source extension keeps tier 2 or 3; the examples hold.
C10_TierFirstMatch ==
    "tier" \in called =>
        /\ tierRes \in {1, 2, 3, 4, 5, 6, 99}
        /\ \A s \in Sizes : get_tier(cpath, s) = tierRes
        /\ tierRes = FirstRule(cpath)
        /\ (lower(FileName(cpath)) \in TIER_2_FILES \cup TIER_3_FILES
               /\ splitext(lower(FileName(cpath)))[2] \in SOURCE_EXTENSIONS)
             => tierRes \in {2, 3}
        /\ cpath = P_readme  => tierRes = 1
        /\ cpath = P_package => tierRes = 2
        /\ cpath = P_docker  => tierRes = 3
        /\ cpath = P_mainpy  => tierRes = 4
        /\ cpath = P_utils   => tierRes = 5
        /\ cpath = P_license => tierRes = 6
        /\ cpath = P_datacsv => tierRes = 99

\* C10 witness: setup.py below a directory, classified as a manifest
C10_Witness ==
    /\ "tier" \in called
    /\ lower(FileName(cpath)) = <<"s","e","t","u","p",".","p","y">>
    /\ Len(DirSegments(cpath)) >= 1
    /\ csize > 0
    /\ tierRes = 2

---------------------------------------------------------------------------
(* Properties of select_files *)

\* A tree entry that the claims call eligible, and the candidate it becomes
Eligible(item) ==
    /\ item.type = "blob"
    /\ ~should_skip(item.path)
    /\ get_tier(item.path, get_size(item)) # 99

CandidateOf(item) ==
    Candidate(item.path, get_size(item), get_tier(item.path, get_size(item)))

UniqueByPath(seq) ==
    \A i, j \in 1..Len(seq) : i # j => seq[i].path # seq[j].path

\* C4: the result of select_files is ascending by (tier, path), paths compared
\* case-sensitively, and holds no skipped path and no tier 99.
C4_SortedNoExcluded ==
    selPc = "done" =>
        /\ \A i \in 1..(Len(candidates) - 1) :
              LET a == candidates[i]
                  b == candidates[i + 1]
              IN  \/ a.tier < b.tier
                  \/ a.tier = b.tier /\ (a.path = b.path \/ str_less(a.path, b.path))
        /\ \A i \in 1..Len(candidates) :
              ~should_skip(candidates[i].path) /\ candidates[i].tier # 99
        /\ \A i, j \in 1..Len(candidates) :
              (candidates[i].path = P_utils /\ candidates[j].path = P_zeta) => j < i

\* C4 witness: a tree in another order than the result, with an upper-case
\* path that sorts before a lower-case one of the same tier
C4_Witness ==
    /\ selPc = "done"
    /\ Len(tree) = 3
    /\ tree[1].path = P_utils /\ tree[2].path = P_zeta /\ tree[3].path = P_readme
    /\ Len(candidates) = 3
    /\ candidates[1].path = P_readme
    /\ candidates[2].path = P_zeta
    /\ candidates[3].path = P_utils

\* C5 as stated: the candidates are unique by path for every input tree.
C5_UniqueByPath ==
    selPc = "done" => UniqueByPath(candidates)

\* C5 amended: select_files does not deduplicate. A path is a candidate as
\* many times as the tree lists it as an eligible blob, so the candidates are
\* unique by path when the blob paths of the tree are.
C5_PathMultiplicity ==
    selPc = "done" =>
        /\ \A k \in 1..Len(tree) :
              Cardinality({i \in 1..Len(candidates) : candidates[i].path = tree[k].path})
              = Cardinality({j \in 1..Len(tree) :
                                tree[j].path = tree[k].path /\ Eligible(tree[j])})
        /\ UniqueByPath(tree) => UniqueByPath(candidates)

\* C5 witness: a tree that lists README.md twice; both entries are candidates
C5_Witness ==
    /\ selPc = "done"
    /\ Len(tree) = 2 /\ tree[1].path = P_readme /\ tree[2].path = P_readme
    /\ Len(candidates) = 2
    /\ candidates[1].path = P_readme /\ candidates[2].path = P_readme

\* C6: the candidates are exactly the eligible blobs of the tree, each with
\* its path, size and tier: no tree-type entry, none dropped, none added; the
\* tree of the end-to-end scenario gives README.md, package.json, src/main.py.
C6_ExactlyEligibleBlobs ==
    selPc = "done" =>
        /\ \A i \in 1..Len(candidates) :
              \E k \in 1..Len(tree) :
                  Eligible(tree[k]) /\ candidates[i] = CandidateOf(tree[k])
        /\ \A k \in 1..Len(tree) :
              Eligible(tree[k]) =>
                  Cardinality({i \in 1..Len(candidates) :
                                  candidates[i] = CandidateOf(tree[k])})
                  = Cardinality({j \in 1..Len(tree) :
                                    /\ Eligible(tree[j])
                                    /\ CandidateOf(tree[j]) = CandidateOf(tree[k])})
        /\ Len(candidates) = Cardinality({j \in 1..Len(tree) : Eligible(tree[j])})
        /\ tree = <<Blob(P_readme, 500), Blob(P_package, 200),
                    Blob(P_main, 1024), Blob(P_nodelib, 900)>>
             => candidates = <<Candidate(P_readme, 500, 1),
                               Candidate(P_package, 200, 2),
                               Candidate(P_main, 1024, 4)>>

\* C6 witness: a directory entry, an excluded blob and an unclassified blob
\* are left out, the one eligible blob is kept
C6_Witness ==
    /\ selPc = "done"
    /\ tree = <<Dir(P_licenses), Blob(P_nodelib, 900),
                Blob(P_datacsv, 50000), Blob(P_main, 1024)>>
    /\ candidates = <<Candidate(P_main, 1024, 4)>>

---------------------------------------------------------------------------
(* Properties of build_context *)

\* The slack the specification allows for: the omitted-files notice at its
\* longest, and the separators of the longest list of sections
FormattingSlack == notice_len(MaxFiles) + (MaxFiles + 4)

\* C1: the returned string is at most MAX_CONTEXT_CHARS plus a fixed slack
\* long, whatever the metadata, the tree, the file bodies and the candidates.
C1_LengthWithinBudget ==
    bcPc = "done" => result_len <= MAX_CONTEXT_CHARS + FormattingSlack

\* The candidates that have a body and come after candidate k
BodiesAfter(k) ==
    {j \in (k + 1)..Len(selected_files) : selected_files[j].path \in DOMAIN file_contents}

\* C2: after a tier 1-3 file is cut to fit and appended, the loop goes on with
\* the next candidate: it does not stop there and appends no omitted-files
\* notice at that point.
C2_TruncatedThenContinues ==
    \A i \in 1..Len(sections) :
        sections[i].kind = "file_truncated" =>
            /\ ~(i < Len(sections) /\ sections[i + 1].kind = "notice")
            /\ breakAt = 0 \/ selected_files[breakAt].path # sections[i].path

\* C3: the number in the omitted-files notice is the number of candidates
\* with a body that come after the candidate the loop stopped at; candidates
\* whose blocks are already in the context are not counted.
C3_NoticeCountsOmitted ==
    \A i \in 1..Len(sections) :
        sections[i].kind = "notice" =>
            sections[i].n = Cardinality(BodiesAfter(breakAt))

---------------------------------------------------------------------------
(* format_tree as a state machine: one step per entry of the input tree *)

\* Longest tree of the small inputs of format_tree
MaxTreeEntries == 2

\* How far past MAX_TREE_LINES - 1 the long inputs of format_tree go
MaxOver == 2

P_srcdir   == <<"s","r","c">>
P_nodedir  == <<"n","o","d","e","_","m","o","d","u","l","e","s">>
P_nodeUp   == <<"N","o","d","e","_","M","o","d","u","l","e","s","/","a",".","j","s">>
P_logo     == <<"l","o","g","o",".","p","n","g">>
P_lock     == <<"s","r","c","/","y","a","r","n",".","l","o","c","k">>
P_dirzip   == <<"d","a","t","a",".","z","i","p">>
P_inzip    == <<"d","a","t","a",".","z","i","p","/","n","o","t","e","s",".","m","d">>

FormatPool ==
    { Dir(P_srcdir), Blob(P_main, 1536), Blob(P_utils, 0),
      Dir(P_nodedir), Blob(P_nodelib, 900), Blob(P_nodeUp, 1),
      Blob(P_logo, 2048), Blob(P_lock, 7), Dir(P_dirzip), Blob(P_inzip, 12) }

SmallTrees == UNION {[1..k -> FormatPool] : k \in 0..MaxTreeEntries}

\* n entries that format_tree keeps, directories and sized files in turn
LongTree(n) ==
    [i \in 1..n |-> IF i % 2 = 1 THEN Dir(P_srcdir) ELSE Blob(P_main, i)]

\* Long trees around the line limit, with and without omitted entries
\* before and after the kept ones
LongTrees ==
    { pre \o LongTree(MAX_TREE_LINES - 1 + d) \o suf :
        d \in 0..MaxOver,
        pre \in {<<>>, <<Blob(P_nodelib, 900)>>},
        suf \in {<<>>, <<Blob(P_logo, 2048)>>} }

InitTree ==
    /\ ftree \in SmallTrees \cup LongTrees
    /\ fk = 1 /\ flines = <<>> /\ ftPc = "loop"
    /\ ClassIdle /\ SelIdle /\ CtxIdle /\ TruncIdle /\ LlmIdle /\ ReqIdle /\ MoreIdle

\* continue: the entry is omitted
FTSkip ==
    /\ ftPc = "loop" /\ fk <= Len(ftree)
    /\ tree_entry_skipped(ftree[fk])
    /\ fk' = fk + 1
    /\ UNCHANGED <<ftree, flines, ftPc, classVars, selVars, ctxVars,
                   truncVars, llmVars, reqVars, moreVars>>

\* the entry's line is appended and the limit is not reached
FTAppend ==
    /\ ftPc = "loop" /\ fk <= Len(ftree)
    /\ ~tree_entry_skipped(ftree[fk])
    /\ LET appended == Append(flines, tree_entry_line(ftree[fk]))
       IN  /\ ~tree_limit_reached(appended)
           /\ flines' = appended
    /\ fk' = fk + 1
    /\ UNCHANGED <<ftree, ftPc, classVars, selVars, ctxVars,
                   truncVars, llmVars, reqVars, moreVars>>

\* the entry's line is appended, the limit is reached: notice, break, return
FTTruncate ==
    /\ ftPc = "loop" /\ fk <= Len(ftree)
    /\ ~tree_entry_skipped(ftree[fk])
    /\ LET appended == Append(flines, tree_entry_line(ftree[fk]))
       IN  /\ tree_limit_reached(appended)
           /\ flines' = Append(appended, tree_notice(ftree))
    /\ ftPc' = "done"
    /\ UNCHANGED <<ftree, fk, classVars, selVars, ctxVars,
                   truncVars, llmVars, reqVars, moreVars>>

\* the loop runs out of entries: return
FTReturn ==
    /\ ftPc = "loop" /\ fk > Len(ftree)
    /\ ftPc' = "done"
    /\ UNCHANGED <<ftree, fk, flines, classVars, selVars, ctxVars,
                   truncVars, llmVars, reqVars, moreVars>>

NextTree == FTSkip \/ FTAppend \/ FTTruncate \/ FTReturn

SpecTree == InitTree /\ [][NextTree]_vars

---------------------------------------------------------------------------
(* Properties of format_tree *)

IsEntryLine(line) == line.kind # "truncated"
IsNoticeLine(line) == line.kind = "truncated"

\* The entry lines of the output, and its truncation notices
EntryLines  == SelectSeq(flines, IsEntryLine)
NoticeLines == SelectSeq(flines, IsNoticeLine)

\* An entry that may be omitted: it lies under an excluded directory, or it
\* is a blob whose name or extension is excluded
MayOmit(item) ==
    \/ HasSkipDir(item.path)
    \/ /\ item.type = "blob"
       /\ LET f == lower(FileName(item.path))
          IN  f \in SkipFilesLower \/ splitext(f)[2] \in SkipExtsLower

MustRender(item) == ~MayOmit(item)

first_n(s, n) == SubSeq(s, 1, IF Len(s) < n THEN Len(s) ELSE n)

\* C11: the entries rendered are exactly those that do not lie under an
\* excluded directory and are not blobs with an excluded name or extension,
\* in input order, up to the line limit; nothing under an excluded directory
\* is rendered.
C11_RendersAllButExcluded ==
    ftPc = "done" =>
        LET kept == first_n(SelectSeq(ftree, MustRender), MAX_TREE_LINES)
        IN  EntryLines = [i \in 1..Len(kept) |-> tree_entry_line(kept[i])]


\* The entries of the input that format_tree does not omit
Renderable == SelectSeq(ftree, LAMBDA item : ~tree_entry_skipped(item))

\* C12: never more than MAX_TREE_LINES entry lines; when that many have been
\* emitted rendering has stopped and one truncation notice, the last line,
\* reports the number of entries of the input tree; with fewer than
\* MAX_TREE_LINES renderable entries there is no notice.
C12_LineLimitAndNotice ==
    /\ Len(EntryLines) <= MAX_TREE_LINES
    /\ \A i \in 1..Len(flines) : IsNoticeLine(flines[i]) => i = Len(flines)
    /\ ftPc = "done" =>
        /\ Len(EntryLines) = MAX_TREE_LINES =>
              /\ Len(NoticeLines) = 1
              /\ flines[Len(flines)].total = Len(ftree)
              /\ fk <= Len(ftree)
        /\ Len(Renderable) < MAX_TREE_LINES => NoticeLines = <<>>

\* C12 witness: a tree with omitted entries and more renderable entries than
\* the limit, cut at the limit before its end
C12_Witness ==
    /\ ftPc = "done"
    /\ Len(Renderable) > MAX_TREE_LINES /\ Len(Renderable) < Len(ftree)
    /\ fk < Len(ftree)
    /\ Len(flines) = MAX_TREE_LINES + 1
    /\ IsNoticeLine(flines[Len(flines)])

---------------------------------------------------------------------------
(* truncate_file_content as a state machine: one call *)

\* Most lines of a short input of truncate_file_content
MaxContentLines == 4

\* Largest small value of max_lines
MaxLimit == 3

\* Bodies of 1..MaxContentLines lines, each empty or of five characters
ShortContents ==
    UNION {[1..k -> {TextLine(0), TextLine(5)}] : k \in 1..MaxContentLines}

\* (content, max_lines): the short bodies under every small limit, and the
\* bodies of the context inputs under the configured limit
TruncateInputs ==
    (ShortContents \X (0..MaxLimit)) \cup (Contents \X {MAX_FILE_LINES})

InitTruncate ==
    /\ \E inp \in TruncateInputs : tcontent = inp[1] /\ tmax = inp[2]
    /\ tresult = <<>> /\ tagain = <<>> /\ tPc = "start"
    /\ ClassIdle /\ SelIdle /\ CtxIdle /\ TreeIdle /\ LlmIdle /\ ReqIdle /\ MoreIdle

TruncateFileContent ==
    /\ tPc = "start"
    /\ tresult' = truncate_file_content(tcontent, tmax)
    /\ tPc' = "done"
    /\ UNCHANGED <<tcontent, tmax, tagain, classVars, selVars, ctxVars,
                   treeVars, llmVars, reqVars, moreVars>>

\* truncate_file_content called on its own result, with the same limit
TruncateAgain ==
    /\ tPc = "done"
    /\ tagain' = truncate_file_content(tresult, tmax)
    /\ tPc' = "again"
    /\ UNCHANGED <<tcontent, tmax, tresult, classVars, selVars, ctxVars,
                   treeVars, llmVars, reqVars, moreVars>>

NextTruncate == TruncateFileContent \/ TruncateAgain

SpecTruncate == InitTruncate /\ [][NextTruncate]_vars

---------------------------------------------------------------------------
(* Properties of truncate_file_content *)

---------------------------------------------------------------------------
(* JSON values and json.loads (src/app/llm_client.py, lines 104 and 113) *)

\* A decoded JSON value: str, int, bool, None, list, dict. A dict is a
\* function from its keys, so two dicts are equal whatever the key order.
JString(s)    == [type |-> "string", s |-> s]
JNumber(n)    == [type |-> "number", n |-> n]
JBool(b)      == [type |-> "bool", b |-> b]
JNull         == [type |-> "null"]
JArray(items) == [type |-> "array", items |-> items]
JObject(map)  == [type |-> "object", map |-> map]

\* d[key] = value on a dict: a repeated key keeps the last value
dict_put(map, key, value) ==
    [k \in DOMAIN map \cup {key} |-> IF k = key THEN value ELSE map[k]]

\* The outcome of a decoding step: the value and the index after it, or the
\* JSONDecodeError
Parsed(value, end) == [ok |-> TRUE, value |-> value, end |-> end]
NoParse            == [ok |-> FALSE]

JsonWhitespace == {" ", "\t", "\n", "\r"}

\* The control characters (below 0x20) that a text of the model can hold
ControlChars == {"\t", "\n", "\r"}

DigitOf ==
    [c \in {"0","1","2","3","4","5","6","7","8","9"} |->
        CASE c = "0" -> 0 [] c = "1" -> 1 [] c = "2" -> 2 [] c = "3" -> 3
          [] c = "4" -> 4 [] c = "5" -> 5 [] c = "6" -> 6 [] c = "7" -> 7
          [] c = "8" -> 8 [] c = "9" -> 9]

\* The character a backslash escape stands for (\uXXXX is not modelled)
BackslashOf ==
    [c \in {"\"", "\\", "/", "n", "r", "t"} |->
        CASE c = "n" -> "\n" [] c = "r" -> "\r" [] c = "t" -> "\t"
          [] OTHER -> c]

W_null  == <<"n","u","l","l">>
W_true  == <<"t","r","u","e">>
W_false == <<"f","a","l","s","e">>

\* s[i:i+1], "" past the end (indices start at 1)
char_at(s, i) == IF i \in 1..Len(s) THEN s[i] ELSE ""

\* s[i:].startswith(w)
starts_at(s, i, w) ==
    i >= 1 /\ i + Len(w) - 1 <= Len(s) /\ SubSeq(s, i, i + Len(w) - 1) = w

min_of(S) == CHOOSE x \in S : \A y \in S : x <= y
max_of(S) == CHOOSE x \in S : \A y \in S : x >= y

\* WHITESPACE.match(s, i).end(): the first index from i on that holds no
\* JSON whitespace
skip_ws(s, i) ==
    LET stops == {j \in i..Len(s) : s[j] \notin JsonWhitespace}
    IN  IF stops = {} THEN Len(s) + 1 ELSE min_of(stops)

\* int() of a run of digits
RECURSIVE int_of(_)
int_of(ds) ==
    IF ds = <<>> THEN 0
    ELSE 10 * int_of(SubSeq(ds, 1, Len(ds) - 1)) + DigitOf[ds[Len(ds)]]

\* NUMBER_RE at i, integers only: -?(0|[1-9][0-9]*)
scan_number(s, i) ==
    LET neg   == char_at(s, i) = "-"
        d     == IF neg THEN i + 1 ELSE i
        stops == {j \in d..Len(s) : s[j] \notin DOMAIN DigitOf}
        run   == IF stops = {} THEN Len(s) + 1 ELSE min_of(stops)
        end   == IF char_at(s, d) = "0" THEN d + 1 ELSE run
        n     == int_of(SubSeq(s, d, end - 1))
    IN  IF char_at(s, d) \notin DOMAIN DigitOf THEN NoParse
        ELSE Parsed(JNumber(IF neg THEN 0 - n ELSE n), end)

\* py_scanstring (strict) from index i, just after the opening quote, acc
\* being the characters decoded so far
RECURSIVE scanstring(_, _, _)
scanstring(s, i, acc) ==
    LET stops == {j \in i..Len(s) : s[j] \in {"\"", "\\"} \cup ControlChars}
    IN  IF stops = {} THEN NoParse
        ELSE LET j     == min_of(stops)
                 chunk == acc \o SubSeq(s, i, j - 1)
             IN  IF s[j] = "\"" THEN Parsed(JString(chunk), j + 1)
                 ELSE IF s[j] # "\\" THEN NoParse
                 ELSE IF char_at(s, j + 1) \notin DOMAIN BackslashOf THEN NoParse
                 ELSE scanstring(s, j + 2, Append(chunk, BackslashOf[s[j + 1]]))


RECURSIVE scan_once(_, _)
RECURSIVE object_members(_, _, _)
RECURSIVE array_items(_, _, _)

\* The loop of JSONObject from index i, where a key must start, map being
\* the pairs read so far
object_members(s, i, map) ==
    IF char_at(s, i) # "\"" THEN NoParse
    ELSE LET key == scanstring(s, i + 1, <<>>)
         IN  IF ~key.ok THEN NoParse
             ELSE LET colon == skip_ws(s, key.end)
                  IN  IF char_at(s, colon) # ":" THEN NoParse
                      ELSE LET val == scan_once(s, skip_ws(s, colon + 1))
                           IN  IF ~val.ok THEN NoParse
                               ELSE LET next == skip_ws(s, val.end)
                                        m    == dict_put(map, key.value.s, val.value)
                                    IN  IF char_at(s, next) = "}"
                                        THEN Parsed(JObject(m), next + 1)
                                        ELSE IF char_at(s, next) # "," THEN NoParse
                                        ELSE object_members(s, skip_ws(s, next + 1), m)

\* JSONObject from index i, just after "{"
scan_object(s, i) ==
    LET first == skip_ws(s, i)
    IN  IF char_at(s, first) = "}" THEN Parsed(JObject(<<>>), first + 1)
        ELSE object_members(s, first, <<>>)

\* The loop of JSONArray from index i, where a value must start
array_items(s, i, items) ==
    LET val == scan_once(s, i)
    IN  IF ~val.ok THEN NoParse
        ELSE LET next == skip_ws(s, val.end)
                 a    == Append(items, val.value)
             IN  IF char_at(s, next) = "]" THEN Parsed(JArray(a), next + 1)
                 ELSE IF char_at(s, next) # "," THEN NoParse
                 ELSE array_items(s, skip_ws(s, next + 1), a)

\* JSONArray from index i, just after "["
scan_array(s, i) ==
    LET first == skip_ws(s, i)
    IN  IF char_at(s, first) = "]" THEN Parsed(JArray(<<>>), first + 1)
        ELSE array_items(s, first, <<>>)

\* scan_once: the value that starts at index i
scan_once(s, i) ==
    IF i > Len(s) THEN NoParse
    ELSE IF s[i] = "\"" THEN scanstring(s, i + 1, <<>>)
    ELSE IF s[i] = "{" THEN scan_object(s, i + 1)
    ELSE IF s[i] = "[" THEN scan_array(s, i + 1)
    ELSE IF starts_at(s, i, W_null) THEN Parsed(JNull, i + 4)
    ELSE IF starts_at(s, i, W_true) THEN Parsed(JBool(TRUE), i + 4)
    ELSE IF starts_at(s, i, W_false) THEN Parsed(JBool(FALSE), i + 5)
    ELSE scan_number(s, i)

\* json.loads(s): one value between optional whitespace, nothing after it
json_loads(s) ==
    LET val == scan_once(s, skip_ws(s, 1))
    IN  IF ~val.ok THEN NoParse
        ELSE IF skip_ws(s, val.end) # Len(s) + 1 THEN NoParse
        ELSE val

---------------------------------------------------------------------------
(* Inputs of _extract_json: JSON objects with their texts, and the ways a   *)
(* model reply wraps them                                                  *)

\* The character U+0060, which cannot be written in a string of this module
BACKTICK == "<backtick>"

\* The keys that _validate_response reads
K_summary == <<"s","u","m","m","a","r","y">>
K_technologies == <<"t","e","c","h","n","o","l","o","g","i","e","s">>
K_structure == <<"s","t","r","u","c","t","u","r","e">>

\* the three fields of a summary
O_plain ==
    JObject((K_summary :> JString(<<"T","e","s","t">>)) @@
            (K_technologies :> JArray(<<JString(<<"G","o">>), JString(<<"R","u","s","t">>)>>)) @@
            (K_structure :> JString(<<"F","l","a","t">>)))
O_plain_text ==
    <<"{","\"","s","u","m","m","a","r","y","\"",":"," ","\"","T","e","s",
      "t","\"",","," ","\"","t","e","c","h","n","o","l","o","g","i","e","s",
      "\"",":"," ","[","\"","G","o","\"",","," ","\"","R","u","s","t","\"",
      "]",","," ","\"","s","t","r","u","c","t","u","r","e","\"",":"," ",
      "\"","F","l","a","t","\"","}">>

\* nested object and array, literals, a negative number
O_nested ==
    JObject((<<"k">> :> JObject((<<"n">> :> JNumber(1)))) @@
            (<<"t">> :> JArray(<<JBool(TRUE), JNull, JNumber(0 - 20)>>)))
O_nested_text ==
    <<"{","\"","k","\"",":"," ","{","\"","n","\"",":"," ","1","}",","," ",
      "\"","t","\"",":"," ","[","t","r","u","e",","," ","n","u","l","l",",",
      " ","-","2","0","]","}">>

\* a string value that holds braces
O_braces ==
    JObject((K_summary :> JString(<<"a","}","b","{","c">>)) @@
            (K_technologies :> JArray(<<>>)) @@
            (K_structure :> JString(<<"x">>)))
O_braces_text ==
    <<"{","\"","s","u","m","m","a","r","y","\"",":"," ","\"","a","}","b",
      "{","c","\"",","," ","\"","t","e","c","h","n","o","l","o","g","i","e",
      "s","\"",":"," ","[","]",","," ","\"","s","t","r","u","c","t","u","r",
      "e","\"",":"," ","\"","x","\"","}">>

\* a string value that holds two backtick fences
O_fences ==
    JObject((K_summary :> JString(<<"u","s","e"," ",BACKTICK,BACKTICK,BACKTICK,"s","h",BACKTICK,BACKTICK,BACKTICK," ","h","e","r","e">>)) @@
            (K_technologies :> JArray(<<JString(<<"C">>)>>)) @@
            (K_structure :> JString(<<"y">>)))
O_fences_text ==
    <<"{","\"","s","u","m","m","a","r","y","\"",":"," ","\"","u","s","e",
      " ",BACKTICK,BACKTICK,BACKTICK,"s","h",BACKTICK,BACKTICK,BACKTICK," ",
      "h","e","r","e","\"",","," ","\"","t","e","c","h","n","o","l","o","g",
      "i","e","s","\"",":"," ","[","\"","C","\"","]",","," ","\"","s","t",
      "r","u","c","t","u","r","e","\"",":"," ","\"","y","\"","}">>

\* the empty object
O_empty ==
    JObject(<<>>)
O_empty_text ==
    <<"{","}">>

\* a string value with escaped quote and newline
O_escape ==
    JObject((K_summary :> JString(<<"s","a","y"," ","\"","h","i","\"","\n">>)))
O_escape_text ==
    <<"{","\"","s","u","m","m","a","r","y","\"",":"," ","\"","s","a","y",
      " ","\\","\"","h","i","\\","\"","\\","n","\"","}">>

JsonObjects ==
    { [obj |-> O_plain, text |-> O_plain_text],
      [obj |-> O_nested, text |-> O_nested_text],
      [obj |-> O_braces, text |-> O_braces_text],
      [obj |-> O_fences, text |-> O_fences_text],
      [obj |-> O_empty, text |-> O_empty_text],
      [obj |-> O_escape, text |-> O_escape_text] }

T_pad == <<" "," ","\n"," "," ">>
T_fence == <<BACKTICK,BACKTICK,BACKTICK>>
T_json == <<"j","s","o","n">>
T_nl == <<"\n">>
T_here == <<"H","e","r","e"," ","i","s"," ","t","h","e"," ","a","n","a","l","y","s","i","s",":","\n">>
T_end == <<"\n","E","n","d",".">>
T_usebraces == <<"U","s","e"," ","{","x","}",":"," ">>
T_asin == <<" ","a","s"," ","i","n"," ","{","y","}">>
T_runfence == <<"R","u","n"," ",BACKTICK,BACKTICK,BACKTICK,"s","h",BACKTICK,BACKTICK,BACKTICK," ","t","h","e","n"," ">>
T_done == <<"\n","D","o","n","e",".">>

X_prose == <<"T","h","i","s"," ","i","s"," ","n","o","t"," ","J","S","O","N"," ","a","t"," ","a","l","l">>
X_empty == <<>>
X_blank == <<" "," ","\n"," ">>
X_array == <<"[","1",","," ","2","]">>
X_number == <<"5">>
X_null == <<"n","u","l","l">>
X_string == <<"\"","t","e","x","t","\"">>
X_true == <<"t","r","u","e">>
X_open == <<"{">>
X_novalue == <<"{","\"","k","\"",":"," ","}">>
X_fencedarray == <<BACKTICK,BACKTICK,BACKTICK,"j","s","o","n","\n","[","1","]","\n",BACKTICK,BACKTICK,BACKTICK>>
X_arrayobj == <<"[","{","\"","k","\"",":"," ","1","}","]">>
X_twoobj == <<"{","\"","a","\"",":"," ","1","}"," ","{","\"","b","\"",":"," ","2","}">>

\* Texts that hold no JSON object at all
NoObjectTexts ==
    { X_prose, X_empty, X_blank, X_array, X_number, X_null,
      X_string, X_true, X_open, X_novalue, X_fencedarray }

\* Texts in which an object sits inside an array or next to another object
OtherTexts == { X_arrayobj, X_twoobj }

\* The ways a reply wraps the text t of an object
WrapKinds ==
    { "bare", "padded", "fenced", "fenced_json", "prose", "prose_braces",
      "prose_braces_after", "prose_fence", "fenced_in_prose" }

Wrap(kind, t) ==
    CASE kind = "bare"               -> t
      [] kind = "padded"             -> T_pad \o t \o T_pad
      [] kind = "fenced"             -> T_fence \o T_nl \o t \o T_nl \o T_fence
      [] kind = "fenced_json"        -> T_fence \o T_json \o T_nl \o t \o T_nl \o T_fence
      [] kind = "prose"              -> T_here \o t \o T_end
      [] kind = "prose_braces"       -> T_usebraces \o t
      [] kind = "prose_braces_after" -> t \o T_asin
      [] kind = "prose_fence"        -> T_runfence \o t
      [] kind = "fenced_in_prose"    -> T_here \o T_fence \o T_json \o T_nl \o t
                                          \o T_nl \o T_fence \o T_done

WrappedTexts == {Wrap(kind, o.text) : kind \in WrapKinds, o \in JsonObjects}

ExtractTexts == WrappedTexts \cup NoObjectTexts \cup OtherTexts

---------------------------------------------------------------------------
(* _extract_json *)

\* The whitespace of str.strip() and of \s among the characters of a text
StrWhitespace == {" ", "\t", "\n", "\r"}

\* str.strip()
strip(t) ==
    LET keep == {j \in 1..Len(t) : t[j] \notin StrWhitespace}
    IN  IF keep = {} THEN <<>> ELSE SubSeq(t, min_of(keep), max_of(keep))

\* The first index from i on at which w occurs in t, 0 if there is none
find_from(t, w, i) ==
    LET at == {j \in i..Len(t) : starts_at(t, j, w)}
    IN  IF at = {} THEN 0 ELSE min_of(at)

\* re.search(r"```(?:json)?\s*\n?(.*?)\n?\s*```", text, re.DOTALL): the
\* leftmost opening fence, "json" and whitespace after it taken greedily,
\* the group then running to the whitespace before the next fence
fence_search(t) ==
    LET open  == find_from(t, T_fence, 1)
        p     == IF starts_at(t, open + 3, T_json) THEN open + 7 ELSE open + 3
        nonws == {j \in p..Len(t) : t[j] \notin StrWhitespace}
        q     == IF nonws = {} THEN Len(t) + 1 ELSE min_of(nonws)
        close == find_from(t, T_fence, q)
        body  == {j \in q..(close - 1) : t[j] \notin StrWhitespace}
        e     == IF body = {} THEN q ELSE max_of(body) + 1
    IN  IF open = 0 \/ close = 0 THEN [found |-> FALSE]
        ELSE [found |-> TRUE, group |-> SubSeq(t, q, e - 1)]

\* text[brace_start : brace_end + 1] for the first "{" and the last "}", when
\* brace_start != -1 and brace_end > brace_start
brace_slice(t) ==
    LET opens  == {j \in 1..Len(t) : t[j] = "{"}
        closes == {j \in 1..Len(t) : t[j] = "}"}
    IN  IF opens = {} \/ closes = {} THEN [found |-> FALSE]
        ELSE IF max_of(closes) <= min_of(opens) THEN [found |-> FALSE]
        ELSE [found |-> TRUE, text |-> SubSeq(t, min_of(opens), max_of(closes))]

\* What a call leaves: the returned value, or the exception raised
Returned(value) == [kind |-> "return", value |-> value]
Raised(error, status_code, message) ==
    [kind |-> "raise", error |-> error, status_code |-> status_code,
     message |-> message]

\* LLMError("LLM returned a response that could not be parsed as JSON. ...")
ParseError ==
    Raised("LLMError", 502,
           "LLM returned a response that could not be parsed as JSON.")


\* Lines 96-100: the stripped text, or the stripped fence group if the
\* pattern matches anywhere in it
fence_stripped(text) ==
    LET t == strip(text)
        m == fence_search(t)
    IN  IF m.found THEN strip(m.group) ELSE t

\* Lines 109-115: json.loads of the text between the braces, if there is a
\* brace pair
braces_parse(t) ==
    LET braces == brace_slice(t)
    IN  IF braces.found THEN json_loads(braces.text) ELSE NoParse

\* _extract_json taken as one function
extract_json(text) ==
    LET t      == fence_stripped(text)
        direct == json_loads(t)
        inner  == braces_parse(t)
    IN  IF direct.ok THEN Returned(direct.value)
        ELSE IF inner.ok THEN Returned(inner.value)
        ELSE ParseError

---------------------------------------------------------------------------
(* _extract_json as a state machine: strip, fence, direct parse, braces *)

InitExtract ==
    /\ etext \in ExtractTexts
    /\ ework = <<>> /\ eres = <<>> /\ ePc = "start"
    /\ ClassIdle /\ SelIdle /\ CtxIdle /\ TreeIdle /\ TruncIdle
    /\ ValIdle /\ GenIdle /\ ReqIdle /\ MoreIdle

\* text = text.strip()
EJStrip ==
    /\ ePc = "start"
    /\ ework' = strip(etext)
    /\ ePc' = "fence"
    /\ UNCHANGED <<etext, eres, classVars, selVars, ctxVars, treeVars,
                   truncVars, valVars, genVars, reqVars, moreVars>>

\* the fence pattern matches: text = match.group(1).strip()
EJFenceMatch ==
    /\ ePc = "fence"
    /\ fence_search(ework).found
    /\ ework' = strip(fence_search(ework).group)
    /\ ePc' = "direct"
    /\ UNCHANGED <<etext, eres, classVars, selVars, ctxVars, treeVars,
                   truncVars, valVars, genVars, reqVars, moreVars>>

\* the fence pattern does not match
EJFenceNone ==
    /\ ePc = "fence"
    /\ ~fence_search(ework).found
    /\ ePc' = "direct"
    /\ UNCHANGED <<etext, ework, eres, classVars, selVars, ctxVars, treeVars,
                   truncVars, valVars, genVars, reqVars, moreVars>>

\* return json.loads(text)
EJDirectReturn ==
    /\ ePc = "direct"
    /\ json_loads(ework).ok
    /\ eres' = Returned(json_loads(ework).value)
    /\ ePc' = "done"
    /\ UNCHANGED <<etext, ework, classVars, selVars, ctxVars, treeVars,
                   truncVars, valVars, genVars, reqVars, moreVars>>

\* json.loads(text) raises JSONDecodeError: pass
EJDirectFail ==
    /\ ePc = "direct"
    /\ ~json_loads(ework).ok
    /\ ePc' = "braces"
    /\ UNCHANGED <<etext, ework, eres, classVars, selVars, ctxVars, treeVars,
                   truncVars, valVars, genVars, reqVars, moreVars>>

\* return json.loads(text[brace_start : brace_end + 1])
EJBracesReturn ==
    /\ ePc = "braces"
    /\ braces_parse(ework).ok
    /\ eres' = Returned(braces_parse(ework).value)
    /\ ePc' = "done"
    /\ UNCHANGED <<etext, ework, classVars, selVars, ctxVars, treeVars,
                   truncVars, valVars, genVars, reqVars, moreVars>>

\* no brace pair, or the text between the braces does not parse: raise
EJRaise ==
    /\ ePc = "braces"
    /\ ~braces_parse(ework).ok
    /\ eres' = ParseError
    /\ ePc' = "done"
    /\ UNCHANGED <<etext, ework, classVars, selVars, ctxVars, treeVars,
                   truncVars, valVars, genVars, reqVars, moreVars>>

NextExtract ==
    \/ EJStrip \/ EJFenceMatch \/ EJFenceNone \/ EJDirectReturn
    \/ EJDirectFail \/ EJBracesReturn \/ EJRaise

SpecExtract == InitExtract /\ [][NextExtract]_vars

---------------------------------------------------------------------------
(* Properties of _extract_json *)

\* C14: the text of a JSON object, bare, padded with whitespace, in a fence
\* with or without "json", or inside prose (prose and string values may hold
\* braces and backtick fences), yields an object equal to it; a text that
\* holds no object raises the parse error.
C14_RoundTrip ==
    ePc = "done" =>
        /\ \A o \in JsonObjects : \A kind \in WrapKinds :
              etext = Wrap(kind, o.text) => eres = Returned(o.obj)
        /\ etext \in NoObjectTexts => eres = ParseError

\* C15: the call ends by returning an object or by raising the parse error;
\* it never returns a value of another JSON type.
C15_ObjectOrParseError ==
    ePc = "done" =>
        \/ eres = ParseError
        \/ eres.kind = "return" /\ eres.value.type = "object"

---------------------------------------------------------------------------
(* _validate_response *)

\* data.get(key): None when the key is missing
dict_get(data, key) == IF key \in DOMAIN data.map THEN data.map[key] ELSE JNull

\* bool(t) of a decoded value, the test of "if t"
truthy(t) ==
    CASE t.type = "string" -> t.s # <<>>
      [] t.type = "number" -> t.n # 0
      [] t.type = "bool"   -> t.b
      [] t.type = "null"   -> FALSE
      [] t.type = "array"  -> t.items # <<>>
      [] t.type = "object" -> DOMAIN t.map # {}

DigitChars == <<"0","1","2","3","4","5","6","7","8","9">>

\* str(n) of a natural number
RECURSIVE nat_str(_)
nat_str(n) ==
    IF n < 10 THEN <<DigitChars[n + 1]>>
    ELSE Append(nat_str(n \div 10), DigitChars[(n % 10) + 1])

\* str(t) of a str, int or bool (the repr of a list or dict is not modelled)
py_str(t) ==
    CASE t.type = "string" -> t.s
      [] t.type = "number" -> IF t.n < 0 THEN <<"-">> \o nat_str(0 - t.n)
                              ELSE nat_str(t.n)
      [] t.type = "bool"   -> IF t.b THEN <<"T","r","u","e">>
                              ELSE <<"F","a","l","s","e">>

\* isinstance(v, str) and v.strip() is not empty
is_nonblank_str(v) == v.type = "string" /\ strip(v.s) # <<>>

\* LLMError("LLM response is missing a valid '<field>' field."), status 502
SchemaError(field) ==
    Raised("LLMError", 502,
           CASE field = "summary" ->
                  "LLM response is missing a valid 'summary' field."
             [] field = "technologies" ->
                  "LLM response is missing a valid 'technologies' field."
             [] field = "structure" ->
                  "LLM response is missing a valid 'structure' field.")

\* An exception that is not an LLMError
RaisedOther(error) == [kind |-> "raise", error |-> error]

\* [str(t) for t in technologies if t]
clean_technologies(items) ==
    LET kept == SelectSeq(items, truthy)
    IN  [i \in 1..Len(kept) |-> JString(py_str(kept[i]))]

\* _validate_response with the technologies test made before the summary test
validate_technologies_first(data) ==
    LET summary      == dict_get(data, K_summary)
        technologies == dict_get(data, K_technologies)
        structure    == dict_get(data, K_structure)
    IN  IF technologies.type # "array" THEN SchemaError("technologies")
        ELSE IF ~is_nonblank_str(summary) THEN SchemaError("summary")
        ELSE IF ~is_nonblank_str(structure) THEN SchemaError("structure")
        ELSE Returned(JObject(
                 (K_summary :> JString(strip(summary.s)))
              @@ (K_technologies :> JArray(clean_technologies(technologies.items)))
              @@ (K_structure :> JString(strip(structure.s)))))

\* _validate_response with every technology kept: [str(t) for t in
\* technologies], None and "" included
validate_keep_all(data) ==
    LET summary      == dict_get(data, K_summary)
        technologies == dict_get(data, K_technologies)
        structure    == dict_get(data, K_structure)
        all          == [i \in 1..Len(technologies.items) |->
                            LET t == technologies.items[i]
                            IN  IF t.type \in {"string", "number", "bool"}
                                THEN JString(py_str(t))
                                ELSE JString(<<"N","o","n","e">>)]
    IN  IF ~is_nonblank_str(summary) THEN SchemaError("summary")
        ELSE IF technologies.type # "array" THEN SchemaError("technologies")
        ELSE IF ~is_nonblank_str(structure) THEN SchemaError("structure")
        ELSE Returned(JObject(
                 (K_summary :> JString(strip(summary.s)))
              @@ (K_technologies :> JArray(all))
              @@ (K_structure :> JString(strip(structure.s)))))

\* _validate_response; on a value that is no dict, data.get raises
\* AttributeError
validate_response(data) ==
    IF data.type # "object" THEN RaisedOther("AttributeError")
    ELSE LET summary      == dict_get(data, K_summary)
             technologies == dict_get(data, K_technologies)
             structure    == dict_get(data, K_structure)
         IN  IF ~is_nonblank_str(summary) THEN SchemaError("summary")
             ELSE IF technologies.type # "array" THEN SchemaError("technologies")
             ELSE IF ~is_nonblank_str(structure) THEN SchemaError("structure")
             ELSE Returned(JObject(
                      (K_summary :> JString(strip(summary.s)))
                   @@ (K_technologies :> JArray(clean_technologies(technologies.items)))
                   @@ (K_structure :> JString(strip(structure.s)))))


---------------------------------------------------------------------------
(* Inputs of _validate_response, and the call as a state machine *)

\* A key that the dict does not hold
Absent == [type |-> "absent"]

V_test   == JString(<<"T","e","s","t">>)
V_tool   == JString(<<" ","A"," ","t","o","o","l","\n">>)
V_blank  == JString(<<" "," ">>)
V_flat   == JString(<<"F","l","a","t"," ">>)
V_python == JString(<<"P","y","t","h","o","n">>)
V_fast   == JString(<<"F","a","s","t","A","P","I">>)

SummaryValues ==
    { Absent, JNull, JNumber(5), JString(<<>>), V_blank, V_tool, V_test,
      JArray(<<V_test>>) }

TechnologyValues ==
    { Absent, JNull, V_python, JObject(<<>>), JArray(<<>>),
      JArray(<<V_python, JString(<<>>), JNull, V_fast>>),
      JArray(<<JNumber(0), JNumber(7), JBool(TRUE), JBool(FALSE), V_blank,
               JArray(<<>>), JObject(<<>>), JNumber(0 - 12)>>) }

StructureValues ==
    { Absent, JString(<<>>), JString(<<"\n">>), V_flat, V_test, JNumber(7),
      JBool(TRUE) }

ExtraValues == { Absent, JString(<<"x">>) }

K_note == <<"n","o","t","e">>

with_key(map, key, value) ==
    IF value = Absent THEN map ELSE dict_put(map, key, value)

DataDict(s, t, u, x) ==
    JObject(with_key(with_key(with_key(with_key(<<>>, K_summary, s),
                K_technologies, t), K_structure, u), K_note, x))

InitValidate ==
    /\ \E s \in SummaryValues, t \in TechnologyValues,
          u \in StructureValues, x \in ExtraValues :
            vdata = DataDict(s, t, u, x)
    /\ vres = <<>> /\ vPc = "start"
    /\ ClassIdle /\ SelIdle /\ CtxIdle /\ TreeIdle /\ TruncIdle
    /\ EjIdle /\ GenIdle /\ ReqIdle /\ MoreIdle

ValidateResponse ==
    /\ vPc = "start"
    /\ vres' = validate_response(vdata)
    /\ vPc' = "done"
    /\ UNCHANGED <<vdata, classVars, selVars, ctxVars, treeVars, truncVars,
                   ejVars, genVars, reqVars, moreVars>>

NextValidate == ValidateResponse

SpecValidate == InitValidate /\ [][NextValidate]_vars

---------------------------------------------------------------------------
(* Properties of _validate_response *)

\* A required string field that is missing, no string, or blank
BadString(key) ==
    LET v == IF key \in DOMAIN vdata.map THEN vdata.map[key] ELSE Absent
    IN  v.type # "string" \/ \A i \in 1..Len(v.s) : v.s[i] \in StrWhitespace

\* The technologies field is missing or is no list
BadList ==
    K_technologies \notin DOMAIN vdata.map
       \/ vdata.map[K_technologies].type # "array"

\* C16: the call raises the LLMError that names the first of summary,
\* technologies, structure that is missing, of the wrong type or (summary,
\* structure) blank, and returns only when none of them is.
C16_FirstInvalidField ==
    vPc = "done" =>
        IF BadString(K_summary) THEN vres = SchemaError("summary")
        ELSE IF BadList THEN vres = SchemaError("technologies")
        ELSE IF BadString(K_structure) THEN vres = SchemaError("structure")
        ELSE vres.kind = "return"

\* C16 witness: summary is valid, technologies and structure are both
\* invalid, and the error names technologies
C16_Witness ==
    /\ vPc = "done"
    /\ ~BadString(K_summary) /\ BadList /\ BadString(K_structure)
    /\ vres = SchemaError("technologies")

\* C17: a returned dict has exactly the keys summary, technologies,
\* structure; summary and structure are the trimmed input strings, not
\* empty; technologies holds the truthy input elements as strings, in
\* their order, each a non-empty string.
C17_CleanedResult ==
    (vPc = "done" /\ vres.kind = "return") =>
        LET out   == vres.value.map
            items == vdata.map[K_technologies].items
            kept  == SelectSeq(items, truthy)
            tech  == out[K_technologies].items
        IN  /\ DOMAIN out = {K_summary, K_technologies, K_structure}
            /\ out[K_summary] = JString(strip(vdata.map[K_summary].s))
            /\ out[K_structure] = JString(strip(vdata.map[K_structure].s))
            /\ out[K_summary].s # <<>> /\ out[K_structure].s # <<>>
            /\ Len(tech) = Len(kept)
            /\ \A i \in 1..Len(tech) :
                  /\ tech[i].type = "string" /\ tech[i].s # <<>>
                  /\ tech[i].s = py_str(kept[i])

\* C17 witness: an extra key is dropped, strings are trimmed, and falsy
\* technologies are removed from between the others
C17_Witness ==
    /\ vPc = "done" /\ vres.kind = "return"
    /\ K_note \in DOMAIN vdata.map
    /\ vdata.map[K_summary] = V_tool /\ vres.value.map[K_summary].s = <<"A"," ","t","o","o","l">>
    /\ vdata.map[K_technologies].items = <<V_python, JString(<<>>), JNull, V_fast>>
    /\ vres.value.map[K_technologies].items = <<V_python, V_fast>>

---------------------------------------------------------------------------
(* generate_summary *)

\* choice.message of a reply: content is None or a str; reasoning_content
\* and reasoning are attributes that only some models send (Absent: the
\* message has no such attribute)
Message(content, reasoning_content, reasoning) ==
    [content |-> content, reasoning_content |-> reasoning_content,
     reasoning |-> reasoning]

\* A chat completion: its choices, each with a message or None
Completion(choices) == [choices |-> choices]
Choice(message)     == [message |-> message]
NoMessage           == [type |-> "null"]

\* hasattr(msg, name) and the attribute is truthy
has_truthy(attr) == attr # Absent /\ truthy(attr)

\* Lines 215-232 with the reasoning text taken as it is, not stripped
raw_text_unstripped(msg) ==
    IF truthy(msg.content) /\ strip(msg.content.s) # <<>>
    THEN JString(strip(msg.content.s))
    ELSE IF has_truthy(msg.reasoning_content) THEN msg.reasoning_content
    ELSE IF has_truthy(msg.reasoning) THEN msg.reasoning
    ELSE JNull

\* Lines 215-232: raw_text, None when no branch assigns it
raw_text(msg) ==
    IF truthy(msg.content) /\ strip(msg.content.s) # <<>>
    THEN JString(strip(msg.content.s))
    ELSE IF has_truthy(msg.reasoning_content)
    THEN JString(strip(msg.reasoning_content.s))
    ELSE IF has_truthy(msg.reasoning)
    THEN JString(strip(msg.reasoning.s))
    ELSE JNull

\* LLMError("NEBIUS_API_KEY environment variable is not set.", 500)
NotConfiguredError ==
    Raised("LLMError", 500, "NEBIUS_API_KEY environment variable is not set.")

\* The LLMError raised for a failed call of the completion API; an APIError
\* carries a status code or None (here 0), replaced by 502
ApiFailures == {"APITimeoutError", "APIConnectionError"}
ApiStatusCodes == {0, 429, 500}

\* exc.message of an APIError: the text the upstream API sent
ApiMessages == {"", "Rate limit exceeded for key sk-17", "Internal error at worker 3"}

call_error(failure, status_code, message) ==
    CASE failure = "APITimeoutError" ->
           Raised("LLMError", 504, "LLM request timed out.")
      [] failure = "APIConnectionError" ->
           Raised("LLMError", 502,
                  "Could not connect to the Nebius Token Factory API.")
      [] failure = "APIError" ->
           Raised("LLMError", IF status_code = 0 THEN 502 ELSE status_code,
                  "Nebius API error: " \o message)

\* LLMError("LLM returned an empty response.")
EmptyResponseError == Raised("LLMError", 502, "LLM returned an empty response.")

\* LLMError("LLM returned an empty response (no content or reasoning). ...")
NoTextError ==
    Raised("LLMError", 502,
           "LLM returned an empty response (no content or reasoning).")

\* response.choices[0] if response.choices else None, then its message
first_message(resp) ==
    IF resp.choices = <<>> THEN NoMessage ELSE resp.choices[1].message

\* Lines 209-247 taken as one function of the reply
summary_of(resp) ==
    LET msg == first_message(resp)
        raw == IF msg = NoMessage THEN JNull ELSE raw_text(msg)
        parsed == extract_json(raw.s)
    IN  IF msg = NoMessage THEN EmptyResponseError
        ELSE IF ~truthy(raw) THEN NoTextError
        ELSE IF parsed.kind = "raise" THEN parsed
        ELSE validate_response(parsed.value)


\* Replies of the model: the text fields of a message
G_padded == JString(Wrap("padded", O_plain_text))
G_fenced == JString(Wrap("fenced_json", O_plain_text))
G_prose  == JString(Wrap("prose", O_plain_text))
G_blank  == JString(<<" ", "\n">>)

ContentValues ==
    { JNull, JString(<<>>), G_blank, G_padded, JString(X_array),
      JString(X_prose), JString(O_empty_text) }

ReasoningContentValues == { Absent, JNull, JString(<<>>), G_blank, G_fenced }

ReasoningValues == { Absent, JNull, JString(<<>>), G_blank, G_prose }

Messages ==
    { Message(c, rc, r) : c \in ContentValues, rc \in ReasoningContentValues,
                          r \in ReasoningValues }

Completions ==
    { Completion(<<>>), Completion(<<Choice(NoMessage)>>) }
       \cup { Completion(<<Choice(m)>>) : m \in Messages }

InitGenerate ==
    /\ gresp = <<>> /\ graw = <<>> /\ gres = <<>> /\ gPc = "start"
    /\ ClassIdle /\ SelIdle /\ CtxIdle /\ TreeIdle /\ TruncIdle
    /\ EjIdle /\ ValIdle /\ ReqIdle /\ MoreIdle

\* _get_client: the API key is not set
GSNotConfigured ==
    /\ gPc = "start"
    /\ gres' = NotConfiguredError
    /\ gPc' = "done"
    /\ UNCHANGED <<gresp, graw, classVars, selVars, ctxVars, treeVars,
                   truncVars, ejVars, valVars, reqVars, moreVars>>

\* client.chat.completions.create raises
GSCallFails ==
    /\ gPc = "start"
    /\ \/ \E f \in ApiFailures : gres' = call_error(f, 0, "")
       \/ \E s \in ApiStatusCodes, m \in ApiMessages :
             gres' = call_error("APIError", s, m)
    /\ gPc' = "done"
    /\ UNCHANGED <<gresp, graw, classVars, selVars, ctxVars, treeVars,
                   truncVars, ejVars, valVars, reqVars, moreVars>>

\* client.chat.completions.create returns
GSCallReturns ==
    /\ gPc = "start"
    /\ gresp' \in Completions
    /\ gPc' = "response"
    /\ UNCHANGED <<graw, gres, classVars, selVars, ctxVars, treeVars,
                   truncVars, ejVars, valVars, reqVars, moreVars>>

\* no choice, or a choice without message
GSEmptyResponse ==
    /\ gPc = "response"
    /\ first_message(gresp) = NoMessage
    /\ gres' = EmptyResponseError
    /\ gPc' = "done"
    /\ UNCHANGED <<gresp, graw, classVars, selVars, ctxVars, treeVars,
                   truncVars, ejVars, valVars, reqVars, moreVars>>

\* raw_text from content, reasoning_content or reasoning
GSTakeText ==
    /\ gPc = "response"
    /\ first_message(gresp) # NoMessage
    /\ graw' = raw_text(first_message(gresp))
    /\ gPc' = "text"
    /\ UNCHANGED <<gresp, gres, classVars, selVars, ctxVars, treeVars,
                   truncVars, ejVars, valVars, reqVars, moreVars>>

\* if not raw_text: raise
GSNoText ==
    /\ gPc = "text"
    /\ ~truthy(graw)
    /\ gres' = NoTextError
    /\ gPc' = "done"
    /\ UNCHANGED <<gresp, graw, classVars, selVars, ctxVars, treeVars,
                   truncVars, ejVars, valVars, reqVars, moreVars>>

\* parsed = _extract_json(raw_text): the call, run to its end, with what it
\* leaves kept in the variables of _extract_json
GSExtract ==
    /\ gPc = "text"
    /\ truthy(graw)
    /\ etext' = graw.s
    /\ ework' = fence_stripped(graw.s)
    /\ eres' = extract_json(graw.s)
    /\ ePc' = "done"
    /\ IF eres'.kind = "raise"
       THEN gres' = eres' /\ gPc' = "done"
       ELSE gres' = gres /\ gPc' = "parsed"
    /\ UNCHANGED <<gresp, graw, classVars, selVars, ctxVars, treeVars,
                   truncVars, valVars, reqVars, moreVars>>

\* validated = _validate_response(parsed); return validated
GSValidate ==
    /\ gPc = "parsed"
    /\ vdata' = eres.value
    /\ vres' = validate_response(eres.value)
    /\ vPc' = "done"
    /\ gres' = vres'
    /\ gPc' = "done"
    /\ UNCHANGED <<gresp, graw, classVars, selVars, ctxVars, treeVars,
                   truncVars, ejVars, reqVars, moreVars>>

NextGenerate ==
    \/ GSNotConfigured \/ GSCallFails \/ GSCallReturns \/ GSEmptyResponse
    \/ GSTakeText \/ GSNoText \/ GSExtract \/ GSValidate

SpecGenerate == InitGenerate /\ [][NextGenerate]_vars

---------------------------------------------------------------------------
(* Properties of generate_summary *)

\* A text field that gives no text: not there, None, empty or whitespace
NoTextIn(attr) ==
    attr = Absent \/ attr.type # "string"
       \/ \A i \in 1..Len(attr.s) : attr.s[i] \in StrWhitespace

\* The reply holds no text in the field that generate_summary reads: no
\* choice, no message, or blank content and a blank first reasoning field
NothingToParse ==
    LET msg == first_message(gresp)
    IN  \/ msg = NoMessage
        \/ /\ NoTextIn(msg.content)
           /\ IF has_truthy(msg.reasoning_content)
              THEN NoTextIn(msg.reasoning_content)
              ELSE NoTextIn(msg.reasoning)

\* C19: _extract_json is only ever called on a non-empty string without
\* leading or trailing whitespace; a reply without choice, message or text
\* ends in an LLMError with _extract_json never called.
C19_NeverParsesEmpty ==
    /\ ePc # "idle" =>
          /\ etext # <<>>
          /\ etext[1] \notin StrWhitespace
          /\ etext[Len(etext)] \notin StrWhitespace
    /\ (gPc = "done" /\ gresp # <<>> /\ NothingToParse) =>
          /\ gres.kind = "raise" /\ gres.error = "LLMError"
          /\ ePc = "idle"

\* C19 witness: content is blank, reasoning_content holds surrounded text,
\* and _extract_json has been called on the stripped reasoning text
C19_Witness ==
    /\ gPc = "done" /\ gresp # <<>>
    /\ first_message(gresp) # NoMessage
    /\ first_message(gresp).content = G_blank
    /\ first_message(gresp).reasoning_content = G_fenced
    /\ ePc = "done"
    /\ etext = strip(G_fenced.s)
    /\ gres.kind = "return"

---------------------------------------------------------------------------
(* POST /summarize: the request value and its URL *)

\* \w of the patterns, and the class [\w.\-]
WordChars == {UpperChars[i] : i \in 1..26} \cup {LowerChars[i] : i \in 1..26}
             \cup {DigitChars[i] : i \in 1..10} \cup {"_"}
NameChars == WordChars \cup {".", "-"}

\* re.match(r"^[\w.\-]+$", s)
is_name(s) == s # <<>> /\ \A i \in 1..Len(s) : s[i] \in NameChars

\* str.rstrip("/")
rstrip_slash(s) ==
    LET keep == {j \in 1..Len(s) : s[j] # "/"}
    IN  IF keep = {} THEN <<>> ELSE SubSeq(s, 1, max_of(keep))

H_github == <<"g","i","t","h","u","b",".","c","o","m">>
H_www    == <<"w","w","w",".">> \o H_github
W_https  == <<"h","t","t","p","s",":","/","/">> \o H_github \o <<"/">>
W_http   == <<"h","t","t","p",":","/","/">> \o H_github \o <<"/">>
W_git    == <<".","g","i","t">>

\* re.match(r"^https?://github\.com/[\w.\-]+/[\w.\-]+/?$", v): the text
\* after the prefix is two names, with one "/" after them at most
url_pattern_matches(v) ==
    LET w     == IF starts_at(v, 1, W_https) THEN W_https ELSE W_http
        parts == split(SubSeq(v, Len(w) + 1, Len(v)))
    IN  /\ starts_at(v, 1, w)
        /\ Len(parts) \in {2, 3}
        /\ is_name(parts[1]) /\ is_name(parts[2])
        /\ Len(parts) = 3 => parts[3] = <<>>

\* The ValueError of the validator, reported by FastAPI as one error of a
\* RequestValidationError
InvalidUrl == "body.github_url: Value error, Invalid GitHub repository URL. Expected format: https://github.com/{owner}/{repo}"
FieldRequired == "body.github_url: Field required"

\* SummarizeRequest.validate_github_url
validate_github_url(v) ==
    IF url_pattern_matches(strip(v)) THEN Returned(rstrip_slash(strip(v)))
    ELSE [kind |-> "raise", error |-> "RequestValidationError",
          errors |-> <<InvalidUrl>>]

\* GitHubFetchError(message, status_code)
GitHubFetchError(message, status_code) ==
    Raised("GitHubFetchError", status_code, message)

\* urlparse(url): the text after a scheme and its ":", the netloc between
\* "//" and the next "/", "?" or "#", the path up to "?" or "#"
SchemeChars == (WordChars \ {"_"}) \cup {"+", "-", "."}

after_scheme(url) ==
    LET colons == {i \in 1..Len(url) : url[i] = ":"}
        c      == min_of(colons)
    IN  IF colons # {} /\ c > 1 /\ url[1] \notin {DigitChars[i] : i \in 1..10}
           /\ \A i \in 1..(c-1) : url[i] \in SchemeChars
        THEN SubSeq(url, c + 1, Len(url)) ELSE url

first_of(s, chars, from) ==
    LET at == {i \in from..Len(s) : s[i] \in chars}
    IN  IF at = {} THEN Len(s) + 1 ELSE min_of(at)

url_netloc(url) ==
    LET u == after_scheme(url)
    IN  IF starts_at(u, 1, <<"/","/">>)
        THEN SubSeq(u, 3, first_of(u, {"/", "?", "#"}, 3) - 1) ELSE <<>>

url_path(url) ==
    LET u == after_scheme(url)
        p == IF starts_at(u, 1, <<"/","/">>)
             THEN SubSeq(u, first_of(u, {"/", "?", "#"}, 3), Len(u)) ELSE u
    IN  SubSeq(p, 1, first_of(p, {"?", "#"}, 1) - 1)

\* parsed.hostname: the netloc without user info and port, in lower case
url_hostname(url) ==
    LET n    == url_netloc(url)
        ats  == {i \in 1..Len(n) : n[i] = "@"}
        host == IF ats = {} THEN n ELSE SubSeq(n, max_of(ats) + 1, Len(n))
    IN  lower(SubSeq(host, 1, first_of(host, {":"}, 1) - 1))

\* [p for p in parsed.path.strip("/").split("/") if p]
path_parts(path) == SelectSeq(split(path), LAMBDA p : p # <<>>)

\* parse_github_url
parse_github_url(url) ==
    LET u     == rstrip_slash(strip(url))
        v     == IF ends_with(u, W_git) THEN SubSeq(u, 1, Len(u) - 4) ELSE u
        parts == path_parts(url_path(v))
    IN  IF url_hostname(v) \notin {H_github, H_www}
        THEN GitHubFetchError("URL must be a github.com repository URL.", 400)
        ELSE IF Len(parts) < 2
        THEN GitHubFetchError("Could not extract owner/repo from the URL. Expected format: https://github.com/{owner}/{repo}", 400)
        ELSE IF ~is_name(parts[1]) \/ ~is_name(parts[2])
        THEN GitHubFetchError("Invalid owner or repo name: <owner>/<repo>", 400)
        ELSE Returned(<<parts[1], parts[2]>>)

\* Request values: URLs a client may send
U_repo    == <<"h","t","t","p","s",":","/","/","g","i","t","h","u","b",".","c","o","m","/","p","s","f","/","r","e","q","u","e","s","t","s">>
U_slash   == <<" ","h","t","t","p",":","/","/","g","i","t","h","u","b",".","c","o","m","/","a","-","b","/","c","_","d","/"," ">>
U_git     == <<"h","t","t","p","s",":","/","/","g","i","t","h","u","b",".","c","o","m","/","a","/","b",".","g","i","t">>
U_dotgit  == <<"h","t","t","p","s",":","/","/","g","i","t","h","u","b",".","c","o","m","/","a","/",".","g","i","t">>
U_tree    == <<"h","t","t","p","s",":","/","/","g","i","t","h","u","b",".","c","o","m","/","a","/","b","/","t","r","e","e">>
U_owner   == <<"h","t","t","p","s",":","/","/","g","i","t","h","u","b",".","c","o","m","/","a">>
U_gitlab  == <<"h","t","t","p","s",":","/","/","g","i","t","l","a","b",".","c","o","m","/","a","/","b">>
U_query   == <<"h","t","t","p","s",":","/","/","g","i","t","h","u","b",".","c","o","m","/","a","/","b","?","x">>
U_plain   == <<"g","i","t","h","u","b",".","c","o","m","/","a","/","b">>


\* The JSON body of a request: github_url, or no such field
Body(github_url) == [github_url |-> github_url]
\* A body that is not readable as JSON
UnreadableBody == [unreadable |-> TRUE]

RequestUrls ==
    {U_repo, U_slash, U_git, U_dotgit, U_tree, U_owner, U_gitlab, U_query,
     U_plain}
RequestBodies ==
    {UnreadableBody, Body(Absent)} \cup {Body(JString(u)) : u \in RequestUrls}

---------------------------------------------------------------------------
(* The exceptions of a request and their handlers *)

\* RequestValidationError(errors): each error as "<loc>: <msg>"
RequestValidationError(errors) ==
    [kind |-> "raise", error |-> "RequestValidationError", errors |-> errors]

\* fastapi.HTTPException(status_code, detail)
HTTPException(status_code, detail) ==
    [kind |-> "raise", error |-> "HTTPException", status_code |-> status_code,
     detail |-> detail]

\* What FastAPI raises for a body it cannot read: a json_invalid validation
\* error, or HTTPException(400) for any other failure to read the body
UnreadableErrors ==
    {RequestValidationError(<<"body.0: JSON decode error">>),
     HTTPException(400, "There was an error parsing the body")}

\* Validation of the body against SummarizeRequest: the validated model or
\* the exceptions FastAPI may raise
request_validation(body) ==
    IF body = UnreadableBody THEN UnreadableErrors
    ELSE IF body.github_url = Absent
    THEN {RequestValidationError(<<FieldRequired>>)}
    ELSE LET v == validate_github_url(body.github_url.s)
         IN  IF v.kind = "raise" THEN {v} ELSE {Returned(Body(JString(v.value)))}

\* JSONResponse(status_code=..., content=...)
JSONResponse(status_code, content) ==
    [status_code |-> status_code, body |-> content]

\* ErrorResponse(message=...).model_dump()
ErrorResponse(message) == [status |-> "error", message |-> message]

\* "; ".join(...)
RECURSIVE join_errors(_)
join_errors(errors) ==
    IF errors = <<>> THEN ""
    ELSE IF Len(errors) = 1 THEN errors[1]
    ELSE errors[1] \o "; " \o join_errors(Tail(errors))

github_error_handler(exc) ==
    JSONResponse(exc.status_code, ErrorResponse(exc.message))

llm_error_handler(exc) ==
    JSONResponse(exc.status_code, ErrorResponse(exc.message))

validation_error_handler(exc) ==
    JSONResponse(422,
        ErrorResponse("Validation error: " \o join_errors(exc.errors)))

\* The body FastAPI's own handler gives an HTTPException
http_error_default(exc) ==
    JSONResponse(exc.status_code, [detail |-> exc.detail])

http_error_handler(exc) ==
    JSONResponse(exc.status_code, ErrorResponse(exc.detail))

generic_error_handler(exc) ==
    JSONResponse(500,
        ErrorResponse("An unexpected error occurred. Please try again."))

\* The handler registered for the class of the exception, the handler of
\* Exception for every other class
handle_exception(exc) ==
    CASE exc.error = "GitHubFetchError"       -> github_error_handler(exc)
      [] exc.error = "LLMError"               -> llm_error_handler(exc)
      [] exc.error = "RequestValidationError" -> validation_error_handler(exc)
      [] exc.error = "HTTPException"          -> http_error_handler(exc)
      [] OTHER                                -> generic_error_handler(exc)

---------------------------------------------------------------------------
(* summarize_repo as a state machine: one action for each outcome of each
   step; rsteps lists the steps that have started *)

StepOrder ==
    <<"parse_github_url", "fetch_repo_data", "select_files",
      "fetch_files_content", "build_context", "invoke_model",
      "recover_validate", "shape_result">>

\* _github_get: the GitHubFetchError of a failed request; a response with
\* a status other than 200, 403 and 404 is reported with its status
GitHubStatusCodes == {403, 404, 500}

\* str(exc) of an httpx.RequestError
RequestErrorTexts == {"[Errno 111] Connection refused", "[SSL] certificate verify failed"}

\* str(response.status_code)
status_str(status_code) ==
    CASE status_code = 500 -> "500" [] status_code = 403 -> "403"
      [] status_code = 404 -> "404" [] OTHER -> "0"

github_get_error(failure, status_code, text) ==
    CASE failure = "TimeoutException" ->
           GitHubFetchError("GitHub API request timed out. Please try again.", 504)
      [] failure = "RequestError" ->
           GitHubFetchError("Network error while contacting GitHub: " \o text, 502)
      [] failure = "status" /\ status_code = 404 ->
           GitHubFetchError("Repository not found. Make sure the URL points to a public repository.", 404)
      [] failure = "status" /\ status_code = 403 ->
           GitHubFetchError("GitHub API rate limit exceeded. Set the GITHUB_TOKEN environment variable for higher limits.", 429)
      [] failure = "status" ->
           GitHubFetchError("GitHub API returned status " \o status_str(status_code) \o ".",
                            status_code)

\* Every exception fetch_repo_data may raise: the errors of _github_get for
\* either request, a body that is not JSON, a tree item without "path"
FetchRepoErrors ==
    {github_get_error("TimeoutException", 0, "")}
    \cup {github_get_error("RequestError", 0, t) : t \in RequestErrorTexts}
    \cup {github_get_error("status", c, "") : c \in GitHubStatusCodes}
    \cup {RaisedOther("JSONDecodeError"), RaisedOther("KeyError")}

\* if not tree
empty_repository_ignored(t) == FALSE

empty_repository(t) == t = <<>>

EmptyRepositoryError ==
    GitHubFetchError("Repository appears to be empty (no files found).", 422)

\* The metadata dict of fetch_repo_metadata: the fields RepoMetadata takes,
\* with the values GitHub sent (None where it sent null)
Metadata(name, stars, language) ==
    [name |-> name, owner |-> JString(<<"a">>), url |-> JString(U_repo),
     stars |-> stars, language |-> language,
     default_branch |-> JString(<<"m","a","i","n">>)]

RequestMetadatas ==
    {Metadata(JString(<<"b">>), JNumber(42), JNull),
     Metadata(JString(<<"b">>), JNull, JString(<<"C">>)),
     Metadata(JNull, JNumber(0), JString(<<"C">>))}

\* RepoMetadata(...) accepts the metadata: str fields hold a str, stars an
\* int, language a str or None
repo_metadata_valid(md) ==
    /\ \A k \in {"name", "owner", "url", "default_branch"} : md[k].type = "string"
    /\ md.stars.type = "number"
    /\ md.language.type \in {"string", "null"}

\* SummarizeResponse(...) with the fields of llm_result
SummarizeResponse(llm_result, md) ==
    [summary |-> llm_result.map[K_summary],
     technologies |-> llm_result.map[K_technologies],
     structure |-> llm_result.map[K_structure],
     repo_metadata |-> md]

\* The candidates build_context writes a block for: those with a body
with_bodies(selected, paths) ==
    SelectSeq(selected, LAMBDA f : f.path \in paths)

\* Trees GitHub may return, and replies of the model
RequestTrees ==
    {<<>>, <<Dir(P_srcdir)>>,
     <<Blob(P_readme, 500), Dir(P_srcdir), Blob(P_main, 1024), Blob(P_logo, 90)>>}

RequestReplies ==
    {Completion(<<>>)}
    \cup {Completion(<<Choice(Message(c, Absent, Absent))>>) :
             c \in {G_padded, G_fenced, G_blank, JString(X_array), JString(X_prose),
                    JString(O_empty_text)}}

otherCalls == <<classVars, selVars, ctxVars, treeVars, truncVars, llmVars,
                moreVars>>

InitSummarize ==
    /\ rbody \in RequestBodies
    /\ rrepo = <<>> /\ rmetadata = <<>> /\ rtree = <<>> /\ rselected = <<>>
    /\ rfetched = {} /\ rcontext = <<>> /\ rreply = <<>> /\ rresult = <<>>
    /\ rsteps = <<>> /\ rexc = <<>> /\ rresp = <<>> /\ rPc = "received"
    /\ ClassIdle /\ SelIdle /\ CtxIdle /\ TreeIdle /\ TruncIdle /\ LlmIdle
    /\ MoreIdle

\* The step raises: the exception leaves summarize_repo
Fail(step, exc) ==
    /\ rsteps' = Append(rsteps, step)
    /\ rexc' = exc
    /\ rPc' = "failed"

\* FastAPI rejects the body: summarize_repo is not called
RRejectBody ==
    /\ rPc = "received"
    /\ \E v \in request_validation(rbody) :
          /\ v.kind = "raise"
          /\ rexc' = v
    /\ rPc' = "failed"
    /\ UNCHANGED <<otherCalls, rbody, rrepo, rmetadata, rtree, rselected,
                   rfetched, rcontext, rreply, rresult, rsteps, rresp>>

\* FastAPI calls summarize_repo with the validated body
RAcceptBody ==
    /\ rPc = "received"
    /\ \E v \in request_validation(rbody) :
          /\ v.kind = "return"
          /\ rbody' = v.value
    /\ rPc' = "parse"
    /\ UNCHANGED <<otherCalls, rrepo, rmetadata, rtree, rselected, rfetched,
                   rcontext, rreply, rresult, rsteps, rexc, rresp>>

\* Step 1: owner, repo = parse_github_url(body.github_url) raises
RParseUrlFails ==
    /\ rPc = "parse"
    /\ \E r \in {parse_github_url(rbody.github_url.s)} :
          /\ r.kind = "raise"
          /\ Fail("parse_github_url", r)
    /\ UNCHANGED <<otherCalls, rbody, rrepo, rmetadata, rtree, rselected,
                   rfetched, rcontext, rreply, rresult, rresp>>

RParseUrl ==
    /\ rPc = "parse"
    /\ \E r \in {parse_github_url(rbody.github_url.s)} :
          /\ r.kind = "return"
          /\ rrepo' = r.value
    /\ rsteps' = Append(rsteps, "parse_github_url")
    /\ rPc' = "fetch_repo"
    /\ UNCHANGED <<otherCalls, rbody, rmetadata, rtree, rselected, rfetched,
                   rcontext, rreply, rresult, rexc, rresp>>

\* Step 2: metadata, tree = await fetch_repo_data(owner, repo) raises
RFetchRepoFails ==
    /\ rPc = "fetch_repo"
    /\ \E exc \in FetchRepoErrors : Fail("fetch_repo_data", exc)
    /\ UNCHANGED <<otherCalls, rbody, rrepo, rmetadata, rtree, rselected,
                   rfetched, rcontext, rreply, rresult, rresp>>

RFetchRepo ==
    /\ rPc = "fetch_repo"
    /\ rmetadata' \in RequestMetadatas
    /\ rtree' \in RequestTrees
    /\ rsteps' = Append(rsteps, "fetch_repo_data")
    /\ rPc' = "check_tree"
    /\ UNCHANGED <<otherCalls, rbody, rrepo, rselected, rfetched, rcontext,
                   rreply, rresult, rexc, rresp>>

\* if not tree: raise GitHubFetchError(..., status_code=422)
REmptyRepository ==
    /\ rPc = "check_tree"
    /\ empty_repository(rtree)
    /\ rexc' = EmptyRepositoryError
    /\ rPc' = "failed"
    /\ UNCHANGED <<otherCalls, rbody, rrepo, rmetadata, rtree, rselected,
                   rfetched, rcontext, rreply, rresult, rsteps, rresp>>

\* Step 3: selected = select_files(tree)
RSelectFiles ==
    /\ rPc = "check_tree"
    /\ ~empty_repository(rtree)
    /\ rselected' = select_files(rtree)
    /\ rsteps' = Append(rsteps, "select_files")
    /\ rPc' = "fetch_files"
    /\ UNCHANGED <<otherCalls, rbody, rrepo, rmetadata, rtree, rfetched,
                   rcontext, rreply, rresult, rexc, rresp>>

\* Step 4: fetch_files_content raises: int() of a content-length header
\* that is no number
RFetchFilesFails ==
    /\ rPc = "fetch_files"
    /\ rselected # <<>>
    /\ Fail("fetch_files_content", RaisedOther("ValueError"))
    /\ UNCHANGED <<otherCalls, rbody, rrepo, rmetadata, rtree, rselected,
                   rfetched, rcontext, rreply, rresult, rresp>>

\* Step 4: file_contents holds the paths whose fetch returned text
RFetchFiles ==
    /\ rPc = "fetch_files"
    /\ rfetched' \in SUBSET PathsOf(rselected)
    /\ rsteps' = Append(rsteps, "fetch_files_content")
    /\ rPc' = "build_context"
    /\ UNCHANGED <<otherCalls, rbody, rrepo, rmetadata, rtree, rselected,
                   rcontext, rreply, rresult, rexc, rresp>>

\* Step 5: context = build_context(metadata, tree, file_contents, selected)
RBuildContext ==
    /\ rPc = "build_context"
    /\ rcontext' = with_bodies(rselected, rfetched)
    /\ rsteps' = Append(rsteps, "build_context")
    /\ rPc' = "invoke"
    /\ UNCHANGED <<otherCalls, rbody, rrepo, rmetadata, rtree, rselected,
                   rfetched, rreply, rresult, rexc, rresp>>

\* generate_summary: no API key, or the call of the model raises
RInvokeModelFails ==
    /\ rPc = "invoke"
    /\ \E exc \in {NotConfiguredError}
                  \cup {call_error(f, 0, "") : f \in ApiFailures}
                  \cup {call_error("APIError", c, m) :
                           c \in ApiStatusCodes, m \in ApiMessages} :
          Fail("invoke_model", exc)
    /\ UNCHANGED <<otherCalls, rbody, rrepo, rmetadata, rtree, rselected,
                   rfetched, rcontext, rreply, rresult, rresp>>

\* generate_summary: the model replies
RInvokeModel ==
    /\ rPc = "invoke"
    /\ rreply' \in RequestReplies
    /\ rsteps' = Append(rsteps, "invoke_model")
    /\ rPc' = "recover"
    /\ UNCHANGED <<otherCalls, rbody, rrepo, rmetadata, rtree, rselected,
                   rfetched, rcontext, rresult, rexc, rresp>>

\* generate_summary: no text, no JSON object or an invalid field
RRecoverFails ==
    /\ rPc = "recover"
    /\ \E r \in {summary_of(rreply)} :
          /\ r.kind = "raise"
          /\ Fail("recover_validate", r)
    /\ UNCHANGED <<otherCalls, rbody, rrepo, rmetadata, rtree, rselected,
                   rfetched, rcontext, rreply, rresult, rresp>>

\* llm_result = await generate_summary(context)
RRecover ==
    /\ rPc = "recover"
    /\ \E r \in {summary_of(rreply)} :
          /\ r.kind = "return"
          /\ rresult' = r.value
    /\ rsteps' = Append(rsteps, "recover_validate")
    /\ rPc' = "shape"
    /\ UNCHANGED <<otherCalls, rbody, rrepo, rmetadata, rtree, rselected,
                   rfetched, rcontext, rreply, rexc, rresp>>

\* Step 6: RepoMetadata(...) rejects a field of the metadata
RShapeFails ==
    /\ rPc = "shape"
    /\ ~repo_metadata_valid(rmetadata)
    /\ Fail("shape_result", RaisedOther("ValidationError"))
    /\ UNCHANGED <<otherCalls, rbody, rrepo, rmetadata, rtree, rselected,
                   rfetched, rcontext, rreply, rresult, rresp>>

\* Step 6: return SummarizeResponse(...)
RShape ==
    /\ rPc = "shape"
    /\ repo_metadata_valid(rmetadata)
    /\ rresp' = JSONResponse(200, SummarizeResponse(rresult, rmetadata))
    /\ rsteps' = Append(rsteps, "shape_result")
    /\ rPc' = "responded"
    /\ UNCHANGED <<otherCalls, rbody, rrepo, rmetadata, rtree, rselected,
                   rfetched, rcontext, rreply, rresult, rexc>>

\* The exception handler of the raised exception builds the response
RHandleException ==
    /\ rPc = "failed"
    /\ rresp' = handle_exception(rexc)
    /\ rPc' = "responded"
    /\ UNCHANGED <<otherCalls, rbody, rrepo, rmetadata, rtree, rselected,
                   rfetched, rcontext, rreply, rresult, rsteps, rexc>>

NextSummarize ==
    \/ RRejectBody \/ RAcceptBody
    \/ RParseUrlFails \/ RParseUrl
    \/ RFetchRepoFails \/ RFetchRepo
    \/ REmptyRepository \/ RSelectFiles
    \/ RFetchFilesFails \/ RFetchFiles
    \/ RBuildContext
    \/ RInvokeModelFails \/ RInvokeModel
    \/ RRecoverFails \/ RRecover
    \/ RShapeFails \/ RShape
    \/ RHandleException

SpecSummarize == InitSummarize /\ [][NextSummarize]_vars

---------------------------------------------------------------------------
(* Claims about the request pipeline *)

IsPrefix(s, t) == Len(s) <= Len(t) /\ s = SubSeq(t, 1, Len(s))

Started(step) == \E i \in 1..Len(rsteps) : rsteps[i] = step

\* The fetch of metadata and tree succeeded with a tree of zero entries
EmptyTreeFetched == rmetadata # <<>> /\ rtree = <<>>

\* The steps started so far are a prefix of the fixed order; nothing of a
\* step exists before the step has started; after a fetch that returned
\* zero entries only the first two steps have run and the request fails
\* with the 422 error of the empty repository
PipelineInOrder ==
    /\ IsPrefix(rsteps, StepOrder)
    /\ rfetched # {} => Started("fetch_files_content")
    /\ rreply # <<>> => Started("invoke_model")
    /\ rresult # <<>> => Started("recover_validate")
    /\ EmptyTreeFetched =>
          /\ rsteps = SubSeq(StepOrder, 1, 2)
          /\ rfetched = {} /\ rreply = <<>>
          /\ rPc # "check_tree" => rexc = EmptyRepositoryError
          /\ rPc = "responded" => rresp.status_code = 422

\* Once an exception is raised no step starts, no file body is fetched and
\* the model is not invoked; a step that starts while no exception is
\* raised is the one step after those that returned
NoStepAfterFailure ==
    /\ rexc # <<>> =>
          rsteps' = rsteps /\ rfetched' = rfetched /\ rreply' = rreply
    /\ rsteps' # rsteps =>
          rexc = <<>> /\ rsteps' = SubSeq(StepOrder, 1, Len(rsteps) + 1)

\* C18: summarize_repo runs its steps in the fixed order, each after the
\* previous one returned; after a failing step, and after a tree fetch that
\* returns zero entries (its own 422 error), no later step runs: no file
\* body is fetched and the model is not invoked.
C18_StepsInOrderStopAtFailure ==
    []PipelineInOrder /\ [][NoStepAfterFailure]_vars

C18_Witness ==
    /\ rPc = "responded" /\ EmptyTreeFetched
    /\ rresp = github_error_handler(EmptyRepositoryError)
    /\ rsteps = <<"parse_github_url", "fetch_repo_data">>

\* A failed request that has its response
FailedResponse == rPc = "responded" /\ rexc # <<>>

\* C20: every failure of a request (validation error, GitHubFetchError,
\* LLMError, HTTPException, any other exception) gives a body of exactly
\* the shape {status: "error", message: <string>}.
C20_UniformErrorBody ==
    FailedResponse =>
        /\ DOMAIN rresp.body = {"status", "message"}
        /\ rresp.body.status = "error"
        /\ rresp.body.message \in STRING

C20_Witness ==
    /\ FailedResponse
    /\ rexc.error = "HTTPException"
    /\ rresp = JSONResponse(400,
                  ErrorResponse("There was an error parsing the body"))

---------------------------------------------------------------------------
(* Claims about the texts of error messages *)

\* text in message
contains(message, text) ==
    \E i \in 1..(Len(message) - Len(text) + 1) :
        SubSeq(message, i, i + Len(text) - 1) = text

\* The texts of the exceptions of httpx and of the upstream API
ExceptionTexts == RequestErrorTexts \cup (ApiMessages \ {""})

\* C21: the message of an error response is a fixed text of the service and
\* never holds the text of an internal or third-party exception.
C21_NoExceptionText ==
    FailedResponse =>
        \A t \in ExceptionTexts : ~contains(rresp.body.message, t)

---------------------------------------------------------------------------
(* fetch_file_content and fetch_files_content *)

MAX_FILE_SIZE_BYTES == 512000
batch_size == 10

\* What client.get gives for a raw file: an httpx exception, or a response
\* with its status, content-length header (None when not sent) and body
GetRaises(error) == [exc |-> error]
GetResponse(status_code, content_length, text) ==
    [exc |-> "", status_code |-> status_code,
     content_length |-> content_length, text |-> text]

\* str.isdigit-like test for the texts int() accepts here: decimal digits
is_decimal(s) ==
    s # <<>> /\ \A i \in 1..Len(s) : s[i] \in DOMAIN DigitOf

None == [type |-> "null"]

\* The character "\x00"
NUL == "\\0"

\* A body that response.text cannot decode
Undecodable == [type |-> "undecodable"]

\* fetch_file_content: the text, None, or the ValueError of int() on a
\* content-length header that is no number
fetch_file_content(r) ==
    IF r.exc \in {"TimeoutException", "RequestError"} THEN Returned(None)
    ELSE IF r.status_code # 200 THEN Returned(None)
    ELSE IF truthy(r.content_length) /\ ~is_decimal(r.content_length.s)
    THEN RaisedOther("ValueError")
    ELSE IF truthy(r.content_length)
            /\ int_of(r.content_length.s) > MAX_FILE_SIZE_BYTES
    THEN Returned(None)
    ELSE IF r.text = Undecodable THEN Returned(None)
    ELSE IF \E i \in 1..Len(r.text.s) : r.text.s[i] = NUL THEN Returned(None)
    ELSE Returned(r.text)

\* Responses of raw.githubusercontent.com
L_none  == None
L_empty == JString(<<>>)
L_small == JString(<<"1","2">>)
L_limit == JString(<<"5","1","2","0","0","0">>)
L_over  == JString(<<"5","1","2","0","0","1">>)
L_words == JString(<<"1","2",","," ","1","2">>)
T_text   == JString(<<"d","e","f"," ","f","(",")",":">>)
T_binary == JString(<<"P","K",NUL>>)

Responses ==
    {GetRaises("TimeoutException"), GetRaises("RequestError")}
    \cup {GetResponse(s, L_none, T_text) : s \in {200, 404, 500}}
    \cup {GetResponse(200, l, T_text) :
             l \in {L_empty, L_small, L_limit, L_over, L_words}}
    \cup {GetResponse(200, L_small, Undecodable),
          GetResponse(200, L_small, T_binary)}

\* What one fetch leaves in its task: "text", "none" or "raised"
task_result(outcome) ==
    IF outcome.kind = "raise" THEN "raised"
    ELSE IF outcome.value = None THEN "none" ELSE "text"

TaskResults == {task_result(fetch_file_content(r)) : r \in Responses}

\* file_paths[i : i + batch_size], i counted from 0
batch_unbounded(paths, i) == SubSeq(paths, i + 1, Len(paths))

batch(paths, i) ==
    SubSeq(paths, i + 1, IF i + batch_size < Len(paths) THEN i + batch_size
                         ELSE Len(paths))

\* await asyncio.gather(*tasks) returns: every task has its result
gathered(ts) == \A k \in 1..Len(ts) : ts[k] \in {"text", "none"}

MaxPaths == 11

\* len(file_paths): none, less than a batch, more than a batch
PathCounts == {0, 1, 2, MaxPaths}

\* file_paths: the path of index k is k
InitFetch ==
    /\ \E n \in PathCounts : /\ file_paths = [k \in 1..n |-> k]
                             /\ attempts = [k \in 1..n |-> 0]
    /\ batch_i = 0 /\ tasks = <<>> /\ completed = <<>> /\ results = {}
    /\ fcres = <<>> /\ fcPc = "loop"
    /\ ClassIdle /\ SelIdle /\ CtxIdle /\ TreeIdle /\ TruncIdle /\ LlmIdle
    /\ ReqIdle /\ UrlIdle

fetchFrame == <<classVars, selVars, ctxVars, treeVars, truncVars, llmVars,
                reqVars, urlVars>>

\* for i in range(0, len(file_paths), batch_size): the tasks of the batch
FCBatch ==
    /\ fcPc = "loop" /\ batch_i < Len(file_paths)
    /\ tasks' = [k \in 1..Len(batch(file_paths, batch_i)) |-> "created"]
    /\ fcPc' = "gather"
    /\ UNCHANGED <<fetchFrame, file_paths, batch_i, attempts, completed,
                   results, fcres>>

\* The event loop runs the next task of gather up to its client.get
FCStart ==
    /\ fcPc = "gather"
    /\ \E k \in 1..Len(tasks) :
          /\ tasks[k] = "created"
          /\ \A j \in 1..(k-1) : tasks[j] # "created"
          /\ tasks' = [tasks EXCEPT ![k] = "running"]
          /\ attempts' = [attempts EXCEPT ![batch_i + k] = @ + 1]
    /\ UNCHANGED <<fetchFrame, file_paths, batch_i, completed, results,
                   fcres, fcPc>>

\* A fetch in flight returns its text or None
FCFinish ==
    /\ fcPc = "gather"
    /\ \E k \in 1..Len(tasks), o \in TaskResults \ {"raised"} :
          /\ tasks[k] = "running"
          /\ tasks' = [tasks EXCEPT ![k] = o]
          /\ completed' = completed @@ ((batch_i + k) :> o)
    /\ UNCHANGED <<fetchFrame, file_paths, batch_i, attempts, results,
                   fcres, fcPc>>

\* A fetch in flight raises: gather raises and the exception leaves
\* fetch_files_content
FCRaise ==
    /\ fcPc = "gather"
    /\ "raised" \in TaskResults
    /\ \E k \in 1..Len(tasks) :
          /\ tasks[k] = "running"
          /\ tasks' = [tasks EXCEPT ![k] = "raised"]
    /\ fcres' = RaisedOther("ValueError")
    /\ fcPc' = "done"
    /\ UNCHANGED <<fetchFrame, file_paths, batch_i, attempts, completed,
                   results>>

\* gather returns: for fp, content in zip(batch, contents)
FCGathered ==
    /\ fcPc = "gather" /\ gathered(tasks)
    /\ results' = results \cup
          {file_paths[batch_i + k] : k \in {j \in 1..Len(tasks) : tasks[j] = "text"}}
    /\ batch_i' = batch_i + batch_size
    /\ tasks' = <<>>
    /\ fcPc' = "loop"
    /\ UNCHANGED <<fetchFrame, file_paths, attempts, completed, fcres>>

\* return results
FCReturn ==
    /\ fcPc = "loop" /\ batch_i >= Len(file_paths)
    /\ fcres' = Returned(results)
    /\ fcPc' = "done"
    /\ UNCHANGED <<fetchFrame, file_paths, batch_i, tasks, attempts,
                   completed, results>>

NextFetch ==
    FCBatch \/ FCStart \/ FCFinish \/ FCRaise \/ FCGathered \/ FCReturn

SpecFetch == InitFetch /\ [][NextFetch]_vars

---------------------------------------------------------------------------
(* Claims about fetch_files_content *)

\* The fetches in flight: started, without a result yet
InFlight == {k \in 1..Len(tasks) : tasks[k] = "running"}

\* The indices of file_paths whose fetch has started
Attempted == {i \in DOMAIN attempts : attempts[i] > 0}

\* The batch an index of file_paths belongs to
batch_no(i) == (i - 1) \div batch_size

\* C22: at most 10 fetches are in flight at any moment; the paths are taken
\* in consecutive batches of 10 in list order, and no fetch of a later batch
\* starts before every fetch of the batches before it has completed.
C22_BoundedBatches ==
    /\ Cardinality(InFlight) <= batch_size
    /\ Len(tasks) <= batch_size
    /\ \A i \in Attempted : \A j \in 1..(i-1) : j \in Attempted
    /\ \A j \in Attempted : \A i \in DOMAIN attempts :
          batch_no(i) < batch_no(j) => i \in DOMAIN completed

C22_Witness ==
    /\ batch_i = batch_size /\ InFlight # {}
    /\ \A i \in 1..batch_size : i \in DOMAIN completed

\* The indices whose fetch returned text
ReturnedText == {i \in DOMAIN completed : completed[i] = "text"}

\* C23: for every interleaving and every pattern of outcomes of the single
\* fetches, fetch_files_content attempts each requested path exactly once
\* and returns the map of exactly the paths whose fetch returned text.
C23_EveryPathOnceKeysAreTexts ==
    fcPc = "done" =>
        /\ fcres.kind = "return"
        /\ \A i \in DOMAIN attempts : attempts[i] = 1
        /\ fcres.value = {file_paths[i] : i \in ReturnedText}

---------------------------------------------------------------------------
(* parse_github_url and the validator of SummarizeRequest on URLs built from
   their parts *)

\* A URL text: whitespace, scheme with its "//", host, "/"-separated path
\* segments, an ending, whitespace
Url(pad, scheme, host, segments, ending) ==
    [pad |-> pad, scheme |-> scheme, host |-> host, segments |-> segments,
     ending |-> ending]

url_text(u) ==
    u.pad \o u.scheme \o u.host
    \o (IF u.segments = <<>> THEN <<>> ELSE <<"/">> \o join(u.segments))
    \o u.ending \o u.pad

C_https     == <<"h","t","t","p","s",":","/","/">>
C_http      == <<"h","t","t","p",":","/","/">>
C_ftp       == <<"f","t","p",":","/","/">>
C_slashes   == <<"/","/">>
S_a         == <<"a">>
S_psf       == <<"p","s","f">>
S_requests  == <<"r","e","q","u","e","s","t","s">>
S_a_b       == <<"a","-","b">>
S_repo_js   == <<"r","e","p","o",".","j","s">>
S_b_c       == <<"b"," ","c">>
S_tree      == <<"t","r","e","e">>
S_main      == <<"m","a","i","n">>
H_gitlab    == <<"g","i","t","l","a","b",".","c","o","m">>
E_slash     == <<"/">>
E_git_slash == <<".","g","i","t","/">>
E_query     == <<"?","t","a","b","=","r","e","a","d","m","e">>

Pads     == {<<>>, <<" ", " ">>}
Schemes  == {C_https, C_http, C_ftp, C_slashes, <<>>}
Hosts    == {H_github, H_www, H_gitlab, <<>>}
Endings  == {<<>>, E_slash, W_git, E_git_slash, E_query}
SegmentLists ==
    {<<>>, <<S_a>>, <<S_psf, S_requests>>, <<S_a_b, S_repo_js>>,
     <<S_a, S_b_c>>, <<S_a, W_git>>, <<S_psf, S_requests, S_tree, S_main>>}

Urls ==
    {Url(p, c, h, s, e) :
        p \in Pads, c \in Schemes, h \in Hosts, s \in SegmentLists, e \in Endings}

InitUrl ==
    /\ uurl \in Urls
    /\ uvalidated = <<>> /\ uparsed = <<>> /\ uPc = "start"
    /\ ClassIdle /\ SelIdle /\ CtxIdle /\ TreeIdle /\ TruncIdle /\ LlmIdle
    /\ ReqIdle /\ FetchIdle

urlFrame == <<classVars, selVars, ctxVars, treeVars, truncVars, llmVars,
              reqVars, fetchVars>>

\* parse_github_url(url) called on the text itself
UParse ==
    /\ uPc = "start"
    /\ uparsed' = parse_github_url(url_text(uurl))
    /\ uPc' = "parsed"
    /\ UNCHANGED <<urlFrame, uurl, uvalidated>>

\* SummarizeRequest(github_url=url): the validator runs
UValidate ==
    /\ uPc = "start"
    /\ uvalidated' = validate_github_url(url_text(uurl))
    /\ uPc' = "validated"
    /\ UNCHANGED <<urlFrame, uurl, uparsed>>

\* summarize_repo: parse_github_url(body.github_url) on the validated value
UParseValidated ==
    /\ uPc = "validated"
    /\ uvalidated.kind = "return"
    /\ uparsed' = parse_github_url(uvalidated.value)
    /\ uPc' = "parsed_validated"
    /\ UNCHANGED <<urlFrame, uurl, uvalidated>>

NextUrl == UParse \/ UValidate \/ UParseValidated

SpecUrl == InitUrl /\ [][NextUrl]_vars

---------------------------------------------------------------------------
(* Claims about URLs *)

\* An http or https URL on host github.com
HttpGithubUrl(u) == u.scheme \in {C_http, C_https} /\ u.host = H_github

\* The text has two leading path segments made of letters, digits, "_",
\* "." and "-"; a last segment ".git" counts as the suffix, not as a segment
TwoNames(u) ==
    /\ Len(u.segments) >= 2
    /\ is_name(u.segments[1]) /\ is_name(u.segments[2])
    /\ u.segments[Len(u.segments)] # W_git

\* A last segment ".git" after a single name: owner only, or a repository
\* called ".git"
OnlySuffix(u) == Len(u.segments) = 2 /\ u.segments[2] = W_git

\* C24: parse_github_url returns the first two path segments for every http
\* or https URL on host github.com, whatever the whitespace, trailing
\* slash, ".git" suffix or further segments; every other input raises
\* GitHubFetchError with status 400.
C24_TwoSegmentsOrError400 ==
    (uPc = "parsed" /\ ~OnlySuffix(uurl)) =>
        IF HttpGithubUrl(uurl) /\ TwoNames(uurl)
        THEN uparsed = Returned(<<uurl.segments[1], uurl.segments[2]>>)
        ELSE uparsed.kind = "raise" /\ uparsed.error = "GitHubFetchError"
             /\ uparsed.status_code = 400

\* C30: every URL the validator of SummarizeRequest accepts is accepted by
\* parse_github_url: on a validated value it returns an (owner, repo) pair
\* and never raises its 400 error.
C30_ValidatedUrlParses ==
    uPc = "parsed_validated" => uparsed.kind = "return"

---------------------------------------------------------------------------
(* The running total of build_context *)

\* The metadata, tree and header sections fit the budget by themselves
HeaderFits ==
    /\ Len(sections) >= 3
    /\ sections[1].len + sections[2].len + sections[3].len <= MAX_CONTEXT_CHARS

\* C25: total_chars never decreases, and when the metadata, tree and header
\* sections fit within MAX_CONTEXT_CHARS it is at most MAX_CONTEXT_CHARS
\* after every appended block, the block cut to fit included, for every
\* path length.
C25_TotalNeverDecreasesNorExceeds ==
    /\ [][total_chars' >= total_chars]_vars
    /\ [](HeaderFits => total_chars <= MAX_CONTEXT_CHARS)


\* The paths of the file blocks in the context
BlockPaths ==
    {sections[i].path : i \in {k \in 1..Len(sections) :
                                 sections[k].kind \in {"file", "file_truncated"}}}

\* C28: a candidate without a body is passed over silently: the sections,
\* total_chars and the break state stay as they are and the loop moves to
\* the next candidate, so that later candidates with a body are still
\* processed.
C28_BodilessCandidateSkipped ==
    /\ [][AtBodiless =>
            /\ sections' = sections /\ total_chars' = total_chars
            /\ breakAt' = breakAt /\ bcPc' = "loop" /\ idx' = idx + 1]_vars
    /\ []((bcPc = "done" /\ breakAt = 0) =>
            /\ BlockPaths = DOMAIN file_contents
            /\ \A i \in 1..Len(sections) : sections[i].kind # "notice")

\* A candidate without a body came before one with a body, whose block is
\* in the finished context
C28_Witness ==
    /\ bcPc = "done" /\ breakAt = 0
    /\ \E j, k \in 1..Len(selected_files) :
          /\ j < k
          /\ selected_files[j].path \notin DOMAIN file_contents
          /\ selected_files[k].path \in BlockPaths

---------------------------------------------------------------------------
(* The order of the included blocks *)

IsBlock(s) == s.kind \in {"file", "file_truncated"}

HasBody(f) == f.path \in DOMAIN file_contents

\* The file blocks of the context and the candidates with a body, in order
Blocks == SelectSeq(sections, IsBlock)

BodyCandidates == SelectSeq(selected_files, HasBody)

\* C29: the included blocks are those of a prefix of the candidates with a
\* body, in their order; a block cut to fit is the last one; and in the order
\* of select_files no file of a tier above 3 is included while a file of
\* tier 1-3 with a body is left out.
C29_BlocksArePrefix ==
    /\ Len(Blocks) <= Len(BodyCandidates)
    /\ \A i \in 1..Len(Blocks) :
          /\ Blocks[i].path = BodyCandidates[i].path
          /\ Blocks[i].kind = "file_truncated" => i = Len(Blocks)
          /\ BodyCandidates[i].tier > 3 =>
                \A j \in 1..Len(BodyCandidates) :
                    BodyCandidates[j].tier <= 3 => j <= Len(Blocks)

\* A block was appended, the next one was cut to fit, and a candidate with a
\* body after it is left out
C29_Witness ==
    /\ bcPc = "done" /\ breakAt # 0
    /\ Len(Blocks) >= 2 /\ Blocks[Len(Blocks)].kind = "file_truncated"
    /\ Len(Blocks) < Len(BodyCandidates)

---------------------------------------------------------------------------
(* truncate_file_content on its own results *)

\* C26: truncate_file_content is idempotent: applied to its own result with
\* the same limit it returns that result unchanged, and the result is within
\* the limit of max_lines lines, also when a notice was appended.
C26_TruncateIdempotent ==
    tPc = "again" => tagain = tresult /\ Len(tresult) <= tmax

---------------------------------------------------------------------------
(* The fallback chain of _extract_json *)

\* The stripped text begins with a backtick fence
LeadingFence == starts_at(strip(etext), 1, T_fence)

\* C27: the fence step replaces the text by a fence's inner text only when
\* the stripped text begins with a fence-delimited block; a fence that
\* occurs later in the text leaves the stripped text as it is for the direct
\* parse, and a text the direct parse accepts is returned from there, before
\* the scan from the first "{" to the last "}".
C27_FenceOnlyWhenLeading ==
    /\ ePc \in {"direct", "braces", "done"} =>
          IF LeadingFence /\ fence_search(strip(etext)).found
          THEN ework = strip(fence_search(strip(etext)).group)
          ELSE ework = strip(etext)
    /\ ePc = "done" =>
          LET direct == json_loads(ework)
          IN  direct.ok => eres = Returned(direct.value)
=============================================================================
